---- MODULE Spec2Model ----
(***************************************************************************)
(* squid-cache: record/replay cache for batches of blockchain data.        *)
(*                                                                         *)
(* Spec      recorders of one namespace running recordBatch and            *)
(*           listReplayFiles concurrently (src/index.ts), with the         *)
(*           manifest lock of src/fileio.ts modelled system call by        *)
(*           system call.                                                  *)
(* SpecRecord  one recorder alone in its namespace, day after day.        *)
(* SpecSwap  autoSwapBlocks (src/index.ts) applied to bounded caches and   *)
(*           live batches.                                                 *)
(* SpecList  one recorder calling listReplayFiles against the lock marker  *)
(*           of a process that has died; SpecListFair adds the scheduling. *)
(* SpecReplay  the replay command line (cli.ts): main and limitConcurrency *)
(*           over a list of targets; SpecReplayFair adds the scheduling.   *)
(* SpecTarget  runTarget (cli.ts): one target replayed from a bounded      *)
(*           cache with --fromBlock and --toBlock.                         *)
(* SpecClean  the retention tool (clean.ts): pruneByDays and pruneBySize   *)
(*           over bounded cache trees.                                     *)
(* SpecCodec  gzipWriteNDJSON followed by gunzipReadNDJSON (fileio.ts),    *)
(*           line by line and chunk by chunk.                              *)
(* SpecHash  makeRecorder's fingerprint (stableHash16) for two recorders.  *)
(* SpecCover  fullyCovered (index.ts) over bounded lists of segments.      *)
(***************************************************************************)
EXTENDS Integers, Sequences, FiniteSets, TLC

(***************************************************************************)
(* Bounds of the model.                                                    *)
(***************************************************************************)
MaxDay == 2
MaxCalls == 2

(***************************************************************************)
(* Lock configuration (acquireLock's options, read from the environment),  *)
(* in clock ticks of the model.  The order of the defaults is kept:        *)
(* baseDelay = jitter < maxDelay < timeout < stale.                        *)
(***************************************************************************)
timeoutMs == 3
staleMs == 4
baseDelayMs == 2
backoffNum == 3
backoffDen == 2
maxDelayMs == 3
jitterMs == 2

\* the recorder processes of the namespace, and a process that has died
Procs == {1, 2}
Dead == 3
Nil == -1

VARIABLES
  today,        \* the UTC date of new Date()
  manifest,     \* content of manifest.json
  manifestTmp,  \* content of manifest.json.tmp
  lock,         \* manifest.json.lock: its owner and Date.now() - mtime
  files,        \* batch files at their final path: path -> content
  tmpFiles,     \* batch files at <path>.tmp: path -> content
  nsDir,        \* whether the namespace directory exists
  mode,         \* mode of each recorder
  pc,           \* position of each process
  call,         \* the running call of each process and its locals
  acq,          \* locals of acquireLock: Date.now() - start, delay, and
                \* what is left of the running sleep
  pending,      \* completion of withManifest's try block, kept over finally
  outcome,      \* how the last call of each process ended
  hist,         \* history: what the calls of each process did
  swap,         \* the last call of autoSwapBlocks: its input and its result
  \* the replay command line
  concurrency,  \* args.concurrency
  unhandled,    \* what the runtime does with a rejection nobody handles
  task,         \* the promise of each target's runTarget
  done,         \* the targets whose finally callback has run
  queue,        \* limitConcurrency: tasks not yet started
  running,      \* limitConcurrency: its counter
  results,      \* limitConcurrency: the promises pushed so far
  awaited,      \* the promises Promise.allSettled was given
  cliPc,        \* position of main
  report,       \* the counts main prints
  exitCode,     \* exit status of the process
  \* the retention tool
  tree,         \* what the fingerprint directories hold: path -> bytes
  now,          \* Date.now()
  args,         \* the parsed command line
  cleanPc,      \* position of main
  cleanLog,     \* history: the tree before each phase and what was logged
  \* functions studied on their own
  fnArgs,       \* the arguments of the call
  fnResult      \* what the call has produced so far

recorderVars == <<today, manifest, manifestTmp, lock, files, tmpFiles, nsDir,
                  mode, pc,
                  call, acq, pending, outcome, hist, swap>>
replayVars == <<concurrency, unhandled, task, done, queue, running, results,
                awaited, cliPc, report, exitCode>>
cleanVars == <<tree, now, args, cleanPc, cleanLog>>
fnVars == <<fnArgs, fnResult>>
vars == <<recorderVars, replayVars, cleanVars, fnVars>>

(***************************************************************************)
(* Values on disk.                                                         *)
(***************************************************************************)
NoLock == [owner |-> 0, age |-> 0]
NoFile == [kind |-> "missing", files |-> <<>>]
ManifestOf(fs) == [kind |-> "ok", files |-> fs]

\* JSON.parse(fs.readFileSync(manifestPath)) with the catch of withManifest:
\* a missing or unparseable file gives { files: [] }; a file that parses is
\* taken as it is, with or without a files array.
ParseManifest(d) ==
  CASE d.kind = "ok" -> [hasFiles |-> TRUE, files |-> d.files]
    [] d.kind = "nofiles" -> [hasFiles |-> FALSE, files |-> <<>>]
    [] OTHER -> [hasFiles |-> TRUE, files |-> <<>>]

\* path.join(path.dirname(manifestPath), f.path)
AbsPath(rel) == <<"base", rel>>
RelPath(abs) == abs[2]

\* m.files.map(f => ({absPath, minBlock, maxBlock}))
ResolveEntries(fs) ==
  [i \in 1..Len(fs) |->
     [absPath |-> AbsPath(fs[i].path), minBlock |-> fs[i].minBlock,
      maxBlock |-> fs[i].maxBlock]]

\* Array.prototype.sort((a, b) => a.k - b.k): ascending and stable
RECURSIVE InsertByKey(_, _)
InsertByKey(s, e) ==
  IF s = <<>> THEN <<e>>
  ELSE IF s[Len(s)].k <= e.k THEN Append(s, e)
  ELSE Append(InsertByKey(SubSeq(s, 1, Len(s) - 1), e), s[Len(s)])

RECURSIVE SortByKey(_)
SortByKey(s) ==
  IF s = <<>> THEN <<>>
  ELSE InsertByKey(SortByKey(SubSeq(s, 1, Len(s) - 1)), s[Len(s)])

\* the sorted elements without their keys
Unkey(keyed) == [i \in 1..Len(keyed) |-> keyed[i].v]

\* man.files.sort((a, b) => a.minBlock - b.minBlock)
SortByMin(s) ==
  Unkey(SortByKey([i \in 1..Len(s) |-> [k |-> s[i].minBlock, v |-> s[i]]]))

\* the mutator of recordBatch: man.files.push(entry); man.files.sort(...)
PushEntry_NoSort(fs, e) == Append(fs, e)
PushEntry(fs, e) == SortByMin(Append(fs, e))

(***************************************************************************)
(* Batches.  A raw block carries its height under one of the names the     *)
(* recorder accepts; the tag of a batch stands for the rest of its content.*)
(* A raw block: header.height, header.number and number, Nil when absent.   *)
(***************************************************************************)
BlockA == [hh |-> 1, hn |-> Nil, n |-> Nil]
BlockB == [hh |-> Nil, hn |-> 2, n |-> 1]
BlockC == [hh |-> Nil, hn |-> Nil, n |-> Nil]

\* what recordBatch is called with: nothing, one block, or two blocks with
\* the higher one first
RawInputs == {<<>>, <<BlockC>>, <<BlockB, BlockA>>}

\* height: b.header?.height ?? b.header?.number ?? b.number ?? 0
SlimHeight(b) ==
  IF b.hh # Nil THEN b.hh
  ELSE IF b.hn # Nil THEN b.hn
  ELSE IF b.n # Nil THEN b.n
  ELSE 0

\* blocks.map(b => ({header: {height, ...}, logs, transactions}))
Slim(blocks, p) ==
  [i \in 1..Len(blocks) |-> [height |-> SlimHeight(blocks[i]), tag |-> p]]

\* new Date().toISOString().slice(0, 10)
UtcDay == today

\* path.join(dayDir, `${minBlock}-${maxBlock}.ndjson.gz`), relative to base
BatchPath(day, minBlock, maxBlock) == <<day, minBlock, maxBlock>>

BatchFile(minBlock, maxBlock, rows) ==
  [kind |-> "complete", header |-> <<minBlock, maxBlock>>, rows |-> rows]
GarbledFile == [kind |-> "garbled", header |-> <<0, 0>>, rows |-> <<>>]

NoCall == [op |-> "none", slim |-> <<>>, minBlock |-> 0, maxBlock |-> 0,
           path |-> <<0, 0, 0>>, next |-> <<>>]
NoAcq == [waited |-> 0, delay |-> 0, sleep |-> 0]
NoPending == [kind |-> "none", val |-> <<>>, err |-> ""]
Return(v) == [kind |-> "return", val |-> v, err |-> ""]
Throw(e) == [kind |-> "throw", val |-> <<>>, err |-> e]
NoHist == [calls |-> 0, readKind |-> "none", mutRaised |-> FALSE,
           evicted |-> FALSE, pushed |-> <<>>]

NoSwap == [autoOn |-> FALSE, requireFull |-> FALSE, live |-> <<>>,
           kind |-> "none", out |-> <<>>, read |-> {}]

\* no report printed yet
NoReport == [ok |-> Nil, fail |-> Nil]

\* the replay command line is not running
NoReplay ==
  /\ concurrency = 0
  /\ unhandled = "throw"
  /\ task = <<>>
  /\ done = {}
  /\ queue = <<>>
  /\ running = 0
  /\ results = <<>>
  /\ awaited = <<>>
  /\ cliPc = "exited"
  /\ report = NoReport
  /\ exitCode = Nil

\* JavaScript numbers as far as the retention tool needs them: a value or
\* NaN; every comparison with NaN is false, arithmetic with NaN gives NaN
Num(v) == [nan |-> FALSE, v |-> v]
NaN == [nan |-> TRUE, v |-> 0]
isNaN(a) == a.nan
Minus(a, b) == IF a.nan \/ b.nan THEN NaN ELSE Num(a.v - b.v)
Times(a, b) == IF a.nan \/ b.nan THEN NaN ELSE Num(a.v * b.v)
Gt(a, b) == ~a.nan /\ ~b.nan /\ a.v > b.v
Le(a, b) == ~a.nan /\ ~b.nan /\ a.v <= b.v

\* an option that was not given (undefined)
NoArg == [nan |-> TRUE, v |-> Nil]

NoCleanLog ==
  [ageRan |-> FALSE, ageBefore |-> <<>>, ageLogged |-> <<>>, ageAfter |-> <<>>,
   sizeRan |-> FALSE, sizeBefore |-> <<>>, sizeLogged |-> <<>>,
   sizeAfter |-> <<>>, sizeEst |-> Num(0)]

\* the retention tool is not running
NoClean ==
  /\ tree = <<>>
  /\ now = 0
  /\ args = [days |-> NoArg, maxBytes |-> NoArg, scope |-> {}, dryRun |-> FALSE]
  /\ cleanPc = "done"
  /\ cleanLog = NoCleanLog

\* no function is studied on its own
NoFn ==
  /\ fnArgs = <<>>
  /\ fnResult = <<>>

Modes == {"record", "replay", "off"}
InitManifests ==
  {NoFile, [kind |-> "unparseable", files |-> <<>>],
   [kind |-> "nofiles", files |-> <<>>], ManifestOf(<<>>)}

\* the namespace directory exists once anything has been put in it; a
\* recorder that has only been constructed has made no directory
NsDirs ==
  IF manifest = NoFile /\ files = <<>> /\ lock.owner = 0 THEN BOOLEAN ELSE {TRUE}

Init ==
  /\ today = 1
  /\ manifest \in {NoFile, [kind |-> "nofiles", files |-> <<>>]}
  /\ manifestTmp = NoFile
  /\ lock = NoLock
  /\ files = <<>>
  /\ tmpFiles = <<>>
  /\ nsDir \in NsDirs
  /\ mode \in {f \in [Procs -> Modes] : \A p \in Procs \ {1} : f[p] = "record"}
  /\ pc = [p \in Procs |-> "idle"]
  /\ call = [p \in Procs |-> NoCall]
  /\ acq = [p \in Procs |-> NoAcq]
  /\ pending = [p \in Procs |-> NoPending]
  /\ outcome = [p \in Procs |-> NoPending]
  /\ hist = [p \in Procs |-> NoHist]
  /\ swap = NoSwap
  /\ NoReplay
  /\ NoClean
  /\ NoFn

(***************************************************************************)
(* recordBatch (src/index.ts) and gzipWriteNDJSON (src/fileio.ts)          *)
(***************************************************************************)
RECURSIVE SumCalls(_)
SumCalls(P) ==
  IF P = {} THEN 0
  ELSE LET p == CHOOSE x \in P : TRUE IN hist[p].calls + SumCalls(P \ {p})
Calls == SumCalls(Procs)

Begin(p) == [hist EXCEPT ![p].calls = @ + 1, ![p].readKind = "none",
                         ![p].mutRaised = FALSE, ![p].evicted = FALSE]

\* if (mode === 'off' || mode === 'replay') return; if (!blocks?.length) return
Skips_NotInReplay(m, blocks) == m = "off" \/ Len(blocks) = 0
Skips(m, blocks) == m \in {"off", "replay"} \/ Len(blocks) = 0

\* slim[0]?.header.height ?? 0 and slim[slim.length - 1]?.header.height ?? minBlock
MinBlockOf(slim) == IF Len(slim) > 0 THEN slim[1].height ELSE 0
MaxBlockOf(slim) == IF Len(slim) > 0 THEN slim[Len(slim)].height ELSE MinBlockOf(slim)

\* mode is replay or off, or the input is empty: log and return
RecordSkip(p, blocks) ==
  /\ pc[p] = "idle"
  /\ Calls < MaxCalls
  /\ Skips(mode[p], blocks)
  /\ call' = [call EXCEPT ![p] = [NoCall EXCEPT !.op = "skip"]]
  /\ outcome' = [outcome EXCEPT ![p] = Return(<<>>)]
  /\ hist' = Begin(p)
  /\ UNCHANGED <<fnVars, replayVars, cleanVars, swap, nsDir, today, manifest, manifestTmp, lock, files, tmpFiles, mode, pc,
                 acq, pending>>

\* normalise the blocks, name the file after the first and last height;
\* ensureDir(dayDir) makes the partition directory and those above it;
\* gzipWriteNDJSON: fs.createWriteStream(tmp) creates or truncates the
\* temporary file
RecordBegin(p, blocks) ==
  /\ pc[p] = "idle"
  /\ Calls < MaxCalls
  /\ ~Skips(mode[p], blocks)
  /\ LET slim == Slim(blocks, p)
         minBlock == MinBlockOf(slim)
         maxBlock == MaxBlockOf(slim)
         path == BatchPath(UtcDay, minBlock, maxBlock)
         others == IF path \in DOMAIN tmpFiles THEN tmpFiles[path].writers ELSE {}
     IN /\ call' = [call EXCEPT ![p] =
                      [op |-> "record", slim |-> slim, minBlock |-> minBlock,
                       maxBlock |-> maxBlock, path |-> path, next |-> <<>>]]
        /\ tmpFiles' = (path :> [writers |-> others \cup {p}, last |-> p])
                         @@ tmpFiles
  /\ pc' = [pc EXCEPT ![p] = "gzFinish"]
  /\ outcome' = [outcome EXCEPT ![p] = NoPending]
  /\ hist' = Begin(p)
  /\ nsDir' = TRUE
  /\ UNCHANGED <<fnVars, replayVars, cleanVars, swap, today, manifest, manifestTmp, lock, files, mode, acq, pending>>

\* what a temporary file holds once a writer has finished: the rows of its
\* only writer, or, when several streams wrote to it, either the rows of the
\* one that truncated it last or a mix
TmpContents(path) ==
  LET t == tmpFiles[path]
      whole == BatchFile(call[t.last].minBlock, call[t.last].maxBlock,
                         call[t.last].slim)
  IN IF Cardinality(t.writers) = 1 THEN {whole} ELSE {whole, GarbledFile}

\* ws.on('finish'): rename the temporary file into place; when it has been
\* renamed away by another writer renameSync throws inside the event handler
GzFinish(p) ==
  /\ pc[p] = "gzFinish"
  /\ LET path == call[p].path
     IN IF path \in DOMAIN tmpFiles
        THEN /\ \E c \in TmpContents(path) : files' = (path :> c) @@ files
             /\ tmpFiles' = [q \in DOMAIN tmpFiles \ {path} |-> tmpFiles[q]]
             /\ pc' = [pc EXCEPT ![p] = "fast"]
             /\ outcome' = outcome
        ELSE /\ pc' = [pc EXCEPT ![p] = "crashed"]
             /\ outcome' = [outcome EXCEPT ![p] = Throw("ENOENT")]
             /\ UNCHANGED <<files, tmpFiles>>
  /\ UNCHANGED <<fnVars, replayVars, cleanVars, swap, nsDir, today, manifest, manifestTmp, lock, mode, call, acq, pending,
                 hist>>

\* listReplayFiles: withManifest without a mutator
ListBegin(p) ==
  /\ pc[p] = "idle"
  /\ Calls < MaxCalls
  /\ call' = [call EXCEPT ![p] = [NoCall EXCEPT !.op = "list"]]
  /\ pc' = [pc EXCEPT ![p] = "fast"]
  /\ outcome' = [outcome EXCEPT ![p] = NoPending]
  /\ hist' = Begin(p)
  /\ UNCHANGED <<fnVars, replayVars, cleanVars, swap, nsDir, today, manifest, manifestTmp, lock, files, tmpFiles, mode, acq,
                 pending>>

(***************************************************************************)
(* acquireLock, releaseLock and withManifest (src/fileio.ts)               *)
(***************************************************************************)
Min(a, b) == IF a <= b THEN a ELSE b

\* writeLock: fs.openSync(lp, 'wx') fails with EEXIST when the marker exists
LockFree == lock.owner = 0
LockOf(p) == [owner |-> p, age |-> 0]

\* getLockAgeMs: Date.now() - mtime, 0 when the marker cannot be stat-ed
getLockAgeMs == IF LockFree THEN 0 ELSE lock.age

\* sleepBlocking(delay + jitter), without the cap
SleepMs_Uncapped(delay, jitter) == delay + jitter

\* sleepBlocking(Math.min(delay + jitter, maxDelayMs))
SleepMs(delay, jitter) == Min(delay + jitter, maxDelayMs)

\* delay = Math.min(Math.floor(delay * backoffFactor), maxDelayMs)
NextDelay(delay) == Min((delay * backoffNum) \div backoffDen, maxDelayMs)

\* ensureDir(path.dirname(manifestPath)); start = Date.now();
\* delay = baseDelayMs; fast path: try once
AcquireFast(p) ==
  /\ pc[p] = "fast"
  /\ nsDir' = TRUE
  /\ IF LockFree
     THEN /\ lock' = LockOf(p)
          /\ pc' = [pc EXCEPT ![p] = "read"]
          /\ acq' = acq
     ELSE /\ lock' = lock
          /\ pc' = [pc EXCEPT ![p] = "age"]
          /\ acq' = [acq EXCEPT ![p] = [NoAcq EXCEPT !.delay = baseDelayMs]]
  /\ UNCHANGED <<fnVars, replayVars, cleanVars, swap, today, manifest, manifestTmp, files, tmpFiles, mode, call,
                 pending, outcome, hist>>

\* top of the wait loop, on entry and when sleepBlocking has returned:
\* const age = getLockAgeMs(lp); if (age > staleMs)
MeasureAge(p) ==
  /\ pc[p] = "age"
  /\ acq[p].sleep = 0
  /\ pc' = [pc EXCEPT ![p] = IF getLockAgeMs > staleMs THEN "evict" ELSE "retry"]
  /\ UNCHANGED <<fnVars, replayVars, cleanVars, swap, nsDir, today, manifest, manifestTmp, lock, files, tmpFiles, mode, call,
                 acq, pending, outcome, hist>>

\* removeLock(lp): unlink whatever marker is there now, ignoring errors
EvictStale_KeepsMarker(p) ==
  /\ pc[p] = "evict"
  /\ lock' = lock
  /\ pc' = [pc EXCEPT ![p] = "retry"]
  /\ hist' = [hist EXCEPT ![p].evicted = TRUE]
  /\ UNCHANGED <<fnVars, replayVars, cleanVars, swap, nsDir, today, manifest, manifestTmp, files, tmpFiles, mode, call, acq,
                 pending, outcome>>

EvictStale(p) ==
  /\ pc[p] = "evict"
  /\ lock' = NoLock
  /\ pc' = [pc EXCEPT ![p] = "retry"]
  /\ hist' = [hist EXCEPT ![p].evicted = TRUE]
  /\ UNCHANGED <<fnVars, replayVars, cleanVars, swap, nsDir, today, manifest, manifestTmp, files, tmpFiles, mode, call, acq,
                 pending, outcome>>

\* writeLock in the loop; on EEXIST the timeout check, then backoff + jitter
AcquireRetry_LateTimeout(p) ==
  /\ pc[p] = "retry"
  /\ IF LockFree
     THEN /\ lock' = LockOf(p)
          /\ pc' = [pc EXCEPT ![p] = "read"]
          /\ acq' = [acq EXCEPT ![p] = NoAcq]
          /\ outcome' = outcome
     ELSE /\ lock' = lock
          /\ IF acq[p].waited > timeoutMs
             THEN /\ pc' = [pc EXCEPT ![p] = "idle"]
                  /\ outcome' = [outcome EXCEPT ![p] = Throw("Timeout acquiring manifest lock")]
                  /\ acq' = [acq EXCEPT ![p] = NoAcq]
             ELSE /\ \E jitter \in 0..(jitterMs - 1) :
                       acq' = [acq EXCEPT
                                 ![p].sleep = SleepMs(acq[p].delay, jitter),
                                 ![p].delay = NextDelay(acq[p].delay)]
                  /\ pc' = [pc EXCEPT ![p] = "age"]
                  /\ outcome' = outcome
  /\ UNCHANGED <<fnVars, replayVars, cleanVars, swap, nsDir, today, manifest, manifestTmp, files, tmpFiles, mode, call,
                 pending, hist>>

AcquireRetry(p) ==
  /\ pc[p] = "retry"
  /\ IF LockFree
     THEN /\ lock' = LockOf(p)
          /\ pc' = [pc EXCEPT ![p] = "read"]
          /\ acq' = [acq EXCEPT ![p] = NoAcq]
          /\ outcome' = outcome
     ELSE /\ lock' = lock
          /\ IF acq[p].waited >= timeoutMs
             THEN /\ pc' = [pc EXCEPT ![p] = "idle"]
                  /\ outcome' = [outcome EXCEPT ![p] = Throw("Timeout acquiring manifest lock")]
                  /\ acq' = [acq EXCEPT ![p] = NoAcq]
             ELSE /\ \E jitter \in 0..(jitterMs - 1) :
                       acq' = [acq EXCEPT
                                 ![p].sleep = SleepMs(acq[p].delay, jitter),
                                 ![p].delay = NextDelay(acq[p].delay)]
                  /\ pc' = [pc EXCEPT ![p] = "age"]
                  /\ outcome' = outcome
  /\ UNCHANGED <<fnVars, replayVars, cleanVars, swap, nsDir, today, manifest, manifestTmp, files, tmpFiles, mode, call,
                 pending, hist>>

\* the entry recordBatch pushes
EntryOf(c) == [path |-> c.path, minBlock |-> c.minBlock, maxBlock |-> c.maxBlock]

\* a listReplayFiles that hands withManifest the identity as mutator, so
\* that the parsed manifest is written back
ReadManifest_ListRewrites(p) ==
  /\ pc[p] = "read"
  /\ LET m == ParseManifest(manifest)
     IN /\ hist' = [hist EXCEPT ![p].readKind = manifest.kind,
                                ![p].mutRaised = call[p].op = "record" /\ ~m.hasFiles]
        /\ IF ~m.hasFiles
           THEN /\ pending' = [pending EXCEPT ![p] = Throw("TypeError")]
                /\ pc' = [pc EXCEPT ![p] = "release"]
                /\ call' = call
                /\ manifest' = manifest
           ELSE IF call[p].op = "list"
           THEN /\ pending' = [pending EXCEPT ![p] = Return(ResolveEntries(m.files))]
                /\ pc' = [pc EXCEPT ![p] = "release"]
                /\ call' = call
                /\ manifest' = ManifestOf(m.files)
           ELSE /\ call' = [call EXCEPT ![p].next = PushEntry(m.files, EntryOf(call[p]))]
                /\ pc' = [pc EXCEPT ![p] = "writeTmp"]
                /\ pending' = pending
                /\ manifest' = manifest
  /\ UNCHANGED <<fnVars, replayVars, cleanVars, swap, nsDir, today, manifestTmp, lock, files, tmpFiles, mode, acq,
                 outcome>>

\* a withManifest that writes the parsed manifest back before it calls the
\* mutator
ReadManifest_WritesFirst(p) ==
  /\ pc[p] = "read"
  /\ LET m == ParseManifest(manifest)
     IN /\ hist' = [hist EXCEPT ![p].readKind = manifest.kind,
                                ![p].mutRaised = call[p].op = "record" /\ ~m.hasFiles]
        /\ IF ~m.hasFiles
           THEN /\ pending' = [pending EXCEPT ![p] = Throw("TypeError")]
                /\ pc' = [pc EXCEPT ![p] = "release"]
                /\ call' = call
                /\ manifest' = IF call[p].op = "record" THEN ManifestOf(<<>>)
                               ELSE manifest
           ELSE IF call[p].op = "list"
           THEN /\ pending' = [pending EXCEPT ![p] = Return(ResolveEntries(m.files))]
                /\ pc' = [pc EXCEPT ![p] = "release"]
                /\ call' = call
                /\ manifest' = manifest
           ELSE /\ call' = [call EXCEPT ![p].next = PushEntry(m.files, EntryOf(call[p]))]
                /\ pc' = [pc EXCEPT ![p] = "writeTmp"]
                /\ pending' = pending
                /\ manifest' = manifest
  /\ UNCHANGED <<fnVars, replayVars, cleanVars, swap, nsDir, today, manifestTmp, lock, files, tmpFiles, mode, acq,
                 outcome>>

\* inside try: read the manifest; without a mutator return the resolved
\* entries, with one call it.  m.files.map and man.files.push throw a
\* TypeError when the parsed value has no files array.
ReadManifest(p) ==
  /\ pc[p] = "read"
  /\ LET m == ParseManifest(manifest)
     IN /\ hist' = [hist EXCEPT ![p].readKind = manifest.kind,
                                ![p].mutRaised = call[p].op = "record" /\ ~m.hasFiles]
        /\ IF ~m.hasFiles
           THEN /\ pending' = [pending EXCEPT ![p] = Throw("TypeError")]
                /\ pc' = [pc EXCEPT ![p] = "release"]
                /\ call' = call
           ELSE IF call[p].op = "list"
           THEN /\ pending' = [pending EXCEPT ![p] = Return(ResolveEntries(m.files))]
                /\ pc' = [pc EXCEPT ![p] = "release"]
                /\ call' = call
           ELSE /\ call' = [call EXCEPT ![p].next = PushEntry(m.files, EntryOf(call[p]))]
                /\ pc' = [pc EXCEPT ![p] = "writeTmp"]
                /\ pending' = pending
  /\ UNCHANGED <<fnVars, replayVars, cleanVars, swap, nsDir, today, manifest, manifestTmp, lock, files, tmpFiles, mode, acq,
                 outcome>>

\* fs.writeFileSync(tmp, JSON.stringify(next, null, 2))
WriteTmp(p) ==
  /\ pc[p] = "writeTmp"
  /\ manifestTmp' = ManifestOf(call[p].next)
  /\ pc' = [pc EXCEPT ![p] = "rename"]
  /\ UNCHANGED <<fnVars, replayVars, cleanVars, swap, nsDir, today, manifest, lock, files, tmpFiles, mode, call, acq,
                 pending, outcome, hist>>

\* fs.renameSync(tmp, manifestPath); return next
RenameManifest(p) ==
  /\ pc[p] = "rename"
  /\ IF manifestTmp.kind = "missing"
     THEN /\ pending' = [pending EXCEPT ![p] = Throw("ENOENT")]
          /\ UNCHANGED <<manifest, manifestTmp>>
     ELSE /\ manifest' = manifestTmp
          /\ manifestTmp' = NoFile
          /\ pending' = [pending EXCEPT ![p] = Return(call[p].next)]
  /\ pc' = [pc EXCEPT ![p] = "release"]
  /\ UNCHANGED <<fnVars, replayVars, cleanVars, swap, nsDir, today, lock, files, tmpFiles, mode, call, acq, outcome, hist>>

\* a release that is skipped when the try block threw
ReleaseLock_NoFinally(p) ==
  /\ pc[p] = "release"
  /\ lock' = IF pending[p].kind = "throw" THEN lock ELSE NoLock
  /\ outcome' = [outcome EXCEPT ![p] = pending[p]]
  /\ pending' = [pending EXCEPT ![p] = NoPending]
  /\ hist' = [hist EXCEPT ![p].pushed =
                IF call[p].op = "record" /\ pending[p].kind = "return"
                THEN Append(@, EntryOf(call[p])) ELSE @]
  /\ call' = [call EXCEPT ![p].next = <<>>]
  /\ pc' = [pc EXCEPT ![p] = "idle"]
  /\ UNCHANGED <<fnVars, replayVars, cleanVars, swap, nsDir, today, manifest, manifestTmp, files, tmpFiles, mode, acq>>

\* finally { releaseLock(manifestPath) }, then the completion of try goes on
ReleaseLock(p) ==
  /\ pc[p] = "release"
  /\ lock' = NoLock
  /\ outcome' = [outcome EXCEPT ![p] = pending[p]]
  /\ pending' = [pending EXCEPT ![p] = NoPending]
  /\ hist' = [hist EXCEPT ![p].pushed =
                IF call[p].op = "record" /\ pending[p].kind = "return"
                THEN Append(@, EntryOf(call[p])) ELSE @]
  /\ call' = [call EXCEPT ![p].next = <<>>]
  /\ pc' = [pc EXCEPT ![p] = "idle"]
  /\ UNCHANGED <<fnVars, replayVars, cleanVars, swap, nsDir, today, manifest, manifestTmp, files, tmpFiles, mode, acq>>

\* Time passes: the marker ages, waiting processes have waited longer and
\* sleeps run down.  Ages beyond staleMs and waits beyond timeoutMs are not
\* told apart, the code only compares them with these.
Waiting(p) == pc[p] \in {"age", "evict", "retry"}
Max(a, b) == IF a >= b THEN a ELSE b
Tick ==
  /\ lock' = IF LockFree THEN lock
             ELSE [lock EXCEPT !.age = Min(@ + 1, staleMs + 1)]
  /\ acq' = [p \in Procs |->
               IF Waiting(p)
               THEN [acq[p] EXCEPT !.waited = Min(@ + 1, timeoutMs),
                                   !.sleep = Max(@ - 1, 0)]
               ELSE acq[p]]
  /\ <<lock', acq'>> # <<lock, acq>>
  /\ UNCHANGED <<fnVars, replayVars, cleanVars, swap, nsDir, today, manifest, manifestTmp, files, tmpFiles, mode, pc, call,
                 pending, outcome, hist>>

\* midnight UTC
NextDay ==
  /\ today < MaxDay
  /\ today' = today + 1
  /\ UNCHANGED <<manifest, manifestTmp, lock, files, tmpFiles, nsDir, mode, pc, call,
                 acq, pending, outcome, hist, swap, replayVars, cleanVars, fnVars>>

Step(p, inputs) ==
  \/ \E blocks \in inputs : RecordSkip(p, blocks)
  \/ \E blocks \in inputs : RecordBegin(p, blocks)
  \/ GzFinish(p)
  \/ ListBegin(p)
  \/ AcquireFast(p)
  \/ MeasureAge(p)
  \/ EvictStale(p)
  \/ AcquireRetry(p)
  \/ ReadManifest(p)
  \/ WriteTmp(p)
  \/ RenameManifest(p)
  \/ ReleaseLock(p)

(***************************************************************************)
(* Spec: the recorders of one namespace run concurrently, within one day.  *)
(***************************************************************************)
Next ==
  \/ Tick
  \/ \E p \in Procs : Step(p, RawInputs)

Spec == Init /\ [][Next]_vars

(***************************************************************************)
(* SpecRecord: one recorder alone in its namespace, its calls one after    *)
(* the other.  A previous process may have died holding the lock.          *)
(***************************************************************************)
InitRecord ==
  /\ today = 1
  /\ manifest \in InitManifests
  /\ manifestTmp = NoFile
  /\ lock \in {NoLock, [owner |-> Dead, age |-> 0]}
  /\ files = <<>>
  /\ tmpFiles = <<>>
  /\ nsDir \in NsDirs
  /\ mode \in {f \in [Procs -> Modes] : \A p \in Procs \ {1} : f[p] = "off"}
  /\ pc = [p \in Procs |-> "idle"]
  /\ call = [p \in Procs |-> NoCall]
  /\ acq = [p \in Procs |-> NoAcq]
  /\ pending = [p \in Procs |-> NoPending]
  /\ outcome = [p \in Procs |-> NoPending]
  /\ hist = [p \in Procs |-> NoHist]
  /\ swap = NoSwap
  /\ NoReplay
  /\ NoClean
  /\ NoFn

NextRecord ==
  \/ Tick
  \/ NextDay
  \/ Step(1, RawInputs)

SpecRecord == InitRecord /\ [][NextRecord]_vars

(***************************************************************************)
(* SpecList: one recorder calling listReplayFiles (withManifest without a  *)
(* mutator) again and again, with the marker of a dead process possibly in *)
(* the way.  SpecListFair: the recorder keeps running and the clock keeps  *)
(* going, so sleepBlocking returns and every synchronous step of the call  *)
(* is eventually executed.                                                 *)
(***************************************************************************)
StepList(p) ==
  \/ ListBegin(p)
  \/ AcquireFast(p)
  \/ MeasureAge(p)
  \/ EvictStale(p)
  \/ AcquireRetry(p)
  \/ ReadManifest(p)
  \/ ReleaseLock(p)

NextList ==
  \/ Tick
  \/ StepList(1)

SpecList == InitRecord /\ [][NextList]_vars

SpecListFair == SpecList /\ WF_vars(Tick) /\ WF_vars(StepList(1))

(***************************************************************************)
(* gunzipReadNDJSON (src/fileio.ts), readFile and autoSwapBlocks           *)
(* (src/index.ts)                                                          *)
(***************************************************************************)
MaxHeight == 2

\* block heights; 0 is also what recordBatch gives a block without a height
Heights == 0..MaxHeight

\* the lines of a batch file: the header, then one line per batch
Lines(f) == <<[header |-> f.header]>> \o [i \in 1..Len(f.rows) |-> [row |-> f.rows[i]]]

\* gunzipReadNDJSON: the first line is dropped when skipHeader is set, the
\* others are parsed; one group with all the rows is yielded unless empty
gunzipReadNDJSON(f, skipHeader) ==
  LET lines == Lines(f)
      kept == IF skipHeader /\ Len(lines) > 0 THEN Tail(lines) ELSE lines
      rows == [i \in 1..Len(kept) |->
                 IF "row" \in DOMAIN kept[i] THEN kept[i].row ELSE kept[i].header]
  IN IF Len(rows) > 0 THEN <<rows>> ELSE <<>>

\* what opening and reading the file at a path does
FileState(abs) ==
  IF RelPath(abs) \notin DOMAIN files THEN "missing"
  ELSE files[RelPath(abs)].kind

\* readFile(absPath): the groups of gunzipReadNDJSON(absPath, true)
readFile(abs) == gunzipReadNDJSON(files[RelPath(abs)], TRUE)

RECURSIVE Flatten(_)
Flatten(groups) ==
  IF groups = <<>> THEN <<>> ELSE Head(groups) \o Flatten(Tail(groups))

RECURSIVE SeqMin(_)
SeqMin(hs) ==
  IF Len(hs) = 1 THEN hs[1] ELSE Min(hs[1], SeqMin(Tail(hs)))
RECURSIVE SeqMax(_)
SeqMax(hs) ==
  IF Len(hs) = 1 THEN hs[1]
  ELSE LET m == SeqMax(Tail(hs)) IN IF hs[1] >= m THEN hs[1] ELSE m

\* minMaxFrom(blocks)
minMaxFrom(blocks) ==
  IF Len(blocks) = 0 THEN [min |-> 0, max |-> -1]
  ELSE LET hs == [i \in 1..Len(blocks) |-> blocks[i].height]
       IN [min |-> SeqMin(hs), max |-> SeqMax(hs)]

\* intersects(aMin, aMax, bMin, bMax)
intersects(aMin, aMax, bMin, bMax) == ~(aMax < bMin \/ bMax < aMin)

\* the loop of fullyCovered over the sorted segments
RECURSIVE CoverWalk_NoGapTest(_, _, _)
CoverWalk_NoGapTest(cursor, aMax, segs) ==
  IF segs = <<>> THEN cursor > aMax
  ELSE LET s == Head(segs)
           next == IF cursor >= s.max + 1 THEN cursor ELSE s.max + 1
       IN IF next > aMax THEN TRUE
          ELSE CoverWalk_NoGapTest(next, aMax, Tail(segs))

RECURSIVE CoverWalk(_, _, _)
CoverWalk(cursor, aMax, segs) ==
  IF segs = <<>> THEN cursor > aMax
  ELSE LET s == Head(segs)
           next == IF cursor >= s.max + 1 THEN cursor ELSE s.max + 1
       IN IF s.min > cursor THEN FALSE
          ELSE IF next > aMax THEN TRUE
          ELSE CoverWalk(next, aMax, Tail(segs))

\* fullyCovered without the sort
fullyCovered_Unsorted(aMin, aMax, segs) ==
  CoverWalk(aMin, aMax, SelectSeq(segs, LAMBDA s : s.max >= aMin /\ s.min <= aMax))

\* fullyCovered(aMin, aMax, segs)
fullyCovered(aMin, aMax, segs) ==
  LET kept == SelectSeq(segs, LAMBDA s : s.max >= aMin /\ s.min <= aMax)
      sorted == Unkey(SortByKey([i \in 1..Len(kept) |->
                                  [k |-> kept[i].min, v |-> kept[i]]]))
  IN CoverWalk(aMin, aMax, sorted)

\* the files a call reads, in order: reading stops at the first one that
\* cannot be read
RECURSIVE ReadUpTo(_)
ReadUpTo(fs) ==
  IF fs = <<>> THEN <<>>
  ELSE IF FileState(Head(fs).absPath) # "complete" THEN <<Head(fs)>>
  ELSE <<Head(fs)>> \o ReadUpTo(Tail(fs))

\* for (const f of inRange) for await (const blocks of readFile(f.absPath))
\*   for (const b of blocks) if (h >= min && h <= max) collected.push(b)
RECURSIVE Collect(_, _, _)
Collect(fs, min, max) ==
  IF fs = <<>> THEN <<>>
  ELSE SelectSeq(Flatten(readFile(Head(fs).absPath)),
              LAMBDA b : b.height >= min /\ b.height <= max)
         \o Collect(Tail(fs), min, max)

\* let last = -1; for (const b of collected) if (b.height !== last) push
RECURSIVE DedupFrom_KeepLast(_, _)
DedupFrom_KeepLast(last, s) ==
  IF s = <<>> THEN <<>>
  ELSE IF Len(s) > 1 /\ s[2].height = s[1].height
       THEN DedupFrom_KeepLast(last, Tail(s))
       ELSE <<s[1]>> \o DedupFrom_KeepLast(s[1].height, Tail(s))

RECURSIVE DedupFrom(_, _)
DedupFrom(last, s) ==
  IF s = <<>> THEN <<>>
  ELSE IF s[1].height # last THEN <<s[1]>> \o DedupFrom(s[1].height, Tail(s))
  ELSE DedupFrom(last, Tail(s))

\* collected.sort((a, b) => a.header.height - b.header.height), then dedup
SortDedup(collected) ==
  DedupFrom(-1, Unkey(SortByKey([i \in 1..Len(collected) |->
                                   [k |-> collected[i].height, v |-> collected[i]]])))

\* gotFirst === min && gotLast === max && dedup.length >= (max - min + 1)
Stitched_EndsOnly(dedup, min, max) ==
  /\ Len(dedup) > 0
  /\ dedup[1].height = min
  /\ dedup[Len(dedup)].height = max
Stitched(dedup, min, max) ==
  /\ Len(dedup) > 0
  /\ dedup[1].height = min
  /\ dedup[Len(dedup)].height = max
  /\ Len(dedup) >= max - min + 1

Live(liveBlocks, read) == [kind |-> "live", out |-> liveBlocks, read |-> read]

\* the body of autoSwapBlocks over the manifest document doc, with
\* SQUID_CACHE_AUTO_USE = autoOn and SQUID_CACHE_AUTO_REQUIRE_FULL_COVER =
\* requireFull: how the call ends, the batches it returns and the files it
\* has opened
autoSwapOver(doc, autoOn, requireFull, liveBlocks) ==
  IF ~autoOn \/ Len(liveBlocks) = 0 THEN Live(liveBlocks, {})
  ELSE
    LET mm == minMaxFrom(liveBlocks)
        m == ParseManifest(doc)
        listed == ResolveEntries(m.files)
        inRange == SelectSeq(listed, LAMBDA f :
                            intersects(mm.min, mm.max, f.minBlock, f.maxBlock))
        segs == [i \in 1..Len(inRange) |->
                   [min |-> inRange[i].minBlock, max |-> inRange[i].maxBlock]]
        opened == ReadUpTo(inRange)
        read == {opened[i].absPath : i \in 1..Len(opened)}
        failed == IF opened = <<>> THEN "complete"
                  ELSE FileState(opened[Len(opened)].absPath)
        dedup == SortDedup(Collect(inRange, mm.min, mm.max))
    IN IF ~m.hasFiles THEN [kind |-> "throw", out |-> <<>>, read |-> {}]
       ELSE IF Len(listed) = 0 THEN Live(liveBlocks, {})
       ELSE IF Len(inRange) = 0 THEN Live(liveBlocks, {})
       ELSE IF requireFull /\ ~fullyCovered(mm.min, mm.max, segs)
            THEN Live(liveBlocks, {})
       ELSE IF failed = "missing"
            THEN [kind |-> "crash", out |-> <<>>, read |-> read]
       ELSE IF failed # "complete"
            THEN [kind |-> "throw", out |-> <<>>, read |-> read]
       ELSE IF requireFull /\ ~Stitched(dedup, mm.min, mm.max)
            THEN Live(liveBlocks, read)
       ELSE [kind |-> "cached", out |-> dedup, read |-> read]

\* autoSwapBlocks(liveBlocks): the manifest is the one on disk
autoSwapBlocks(autoOn, requireFull, liveBlocks) ==
  autoSwapOver(manifest, autoOn, requireFull, liveBlocks)

\* one call of autoSwapBlocks by a recorder whose namespace nobody else is
\* using: listReplayFiles takes the lock and gives it back; acquireLock has
\* made the namespace directory; the manifest and the batch files stay
AutoSwap(autoOn, requireFull, liveBlocks) ==
  /\ swap = NoSwap
  /\ LockFree
  /\ \A p \in Procs : pc[p] = "idle"
  /\ LET r == autoSwapBlocks(autoOn, requireFull, liveBlocks)
     IN swap' = [autoOn |-> autoOn, requireFull |-> requireFull,
                 live |-> liveBlocks, kind |-> r.kind, out |-> r.out,
                 read |-> r.read]
  /\ nsDir' = (nsDir \/ (autoOn /\ Len(liveBlocks) > 0))
  /\ UNCHANGED <<today, manifest, manifestTmp, lock, files, tmpFiles, mode, pc,
                 call, acq, pending, outcome, hist, replayVars, cleanVars, fnVars>>

(***************************************************************************)
(* SpecSwap: autoSwapBlocks over the caches that recordBatch and clean.ts  *)
(* leave behind.  Each batch file holds the batches of one call, in the    *)
(* order they were given, and its entry carries the first and the last     *)
(* height; the manifest is sorted by minBlock; a file may be gone while    *)
(* its entry remains (clean.ts removes date partitions and leaves the      *)
(* manifest alone); the manifest may be missing or corrupt.                *)
(***************************************************************************)
\* the batches of the i-th file; the tag tells them apart
Row(i, k, h) == [height |-> h, tag |-> 10 * i + k]
RowSeqs(i, maxLen) ==
  UNION {{[k \in 1..n |-> Row(i, k, hs[k])] : hs \in [1..n -> Heights]} :
           n \in 1..maxLen}

\* the entry recordBatch pushed for the i-th file, written on day i
Recorded(i, rows) ==
  [path |-> BatchPath(i, MinBlockOf(rows), MaxBlockOf(rows)),
   minBlock |-> MinBlockOf(rows), maxBlock |-> MaxBlockOf(rows)]

\* the cache after the calls recordBatch(bs[1]), recordBatch(bs[2]), ... and
\* the removal of the files in gone
Cache(bs, gone) ==
  [manifest |-> ManifestOf([i \in 1..Len(bs) |-> Recorded(i, bs[i])]),
   files |-> [q \in {Recorded(i, bs[i]).path : i \in (1..Len(bs)) \ gone} |->
                BatchFile(q[2], q[3], bs[q[1]])]]

SwapCaches ==
  {[manifest |-> m, files |-> <<>>] : m \in InitManifests}
    \cup {Cache(<<b>>, gone) : b \in RowSeqs(1, 3), gone \in SUBSET {1}}
    \cup {Cache(bb, gone) :
            bb \in {x \in RowSeqs(1, 3) \X RowSeqs(2, 2) :
                      MinBlockOf(x[1]) <= MinBlockOf(x[2])},
            gone \in SUBSET {1, 2}}

\* the live batches of a call: none, one, or two with the higher one first
LiveBlock(h) == [height |-> h, tag |-> 0]
LiveInputs ==
  {<<>>} \cup {<<LiveBlock(h)>> : h \in Heights}
    \cup {<<LiveBlock(hs[2]), LiveBlock(hs[1])>> :
            hs \in {x \in Heights \X Heights : x[1] < x[2]}}

InitSwap ==
  /\ today = 2
  /\ \E c \in SwapCaches : manifest = c.manifest /\ files = c.files
  /\ manifestTmp = NoFile
  /\ lock = NoLock
  /\ tmpFiles = <<>>
  /\ nsDir \in NsDirs
  /\ mode = [p \in Procs |-> "replay"]
  /\ pc = [p \in Procs |-> "idle"]
  /\ call = [p \in Procs |-> NoCall]
  /\ acq = [p \in Procs |-> NoAcq]
  /\ pending = [p \in Procs |-> NoPending]
  /\ outcome = [p \in Procs |-> NoPending]
  /\ hist = [p \in Procs |-> NoHist]
  /\ swap = NoSwap
  /\ NoReplay
  /\ NoClean
  /\ NoFn

NextSwap ==
  \E autoOn \in BOOLEAN, requireFull \in BOOLEAN, liveBlocks \in LiveInputs :
    AutoSwap(autoOn, requireFull, liveBlocks)

SpecSwap == InitSwap /\ [][NextSwap]_vars

(***************************************************************************)
(* The replay command line (cli.ts): main hands one task per selected      *)
(* target to limitConcurrency, awaits Promise.allSettled of the promises   *)
(* limitConcurrency has collected, counts, prints and exits.               *)
(***************************************************************************)
MaxTargets == 3
MaxConcurrency == 2

Settled == {"fulfilled", "rejected"}
Alive == cliPc \in {"await", "reported"}

\* while (running < n && queue.length) { task = queue.shift();
\*   p = task().finally(...); running++; results.push(p) }
RECURSIVE runNext_OneMore(_)
runNext_OneMore(s) ==
  IF s.running <= concurrency /\ s.queue # <<>>
  THEN runNext_OneMore([queue |-> Tail(s.queue),
                        running |-> s.running + 1,
                        results |-> Append(s.results, Head(s.queue)),
                        task |-> [s.task EXCEPT ![Head(s.queue)] = "running"]])
  ELSE s

RECURSIVE runNext(_)
runNext(s) ==
  IF s.running < concurrency /\ s.queue # <<>>
  THEN runNext([queue |-> Tail(s.queue),
                running |-> s.running + 1,
                results |-> Append(s.results, Head(s.queue)),
                task |-> [s.task EXCEPT ![Head(s.queue)] = "running"]])
  ELSE s

\* main up to its await: limitConcurrency copies the tasks into the queue,
\* calls runNext once and gives Promise.allSettled the promises that are in
\* results at that moment
LimitConcurrency ==
  /\ cliPc = "main"
  /\ LET s == runNext([queue |-> [i \in 1..Len(task) |-> i], running |-> 0,
                       results |-> <<>>, task |-> task])
     IN /\ queue' = s.queue
        /\ running' = s.running
        /\ results' = s.results
        /\ task' = s.task
        /\ awaited' = s.results
  /\ cliPc' = "await"
  /\ UNCHANGED <<fnVars, cleanVars, recorderVars, concurrency, unhandled, done, report, exitCode>>

\* runTarget of target i returns or throws: its promise settles
Settle(i, how) ==
  /\ Alive
  /\ task[i] = "running"
  /\ task' = [task EXCEPT ![i] = how]
  /\ UNCHANGED <<fnVars, cleanVars, recorderVars, concurrency, unhandled, done, queue, running,
                 results, awaited, cliPc, report, exitCode>>

\* runTarget of target i opens a batch file that is listed in the manifest
\* and missing on disk: the read stream's error event has no listener and
\* ends the process
ReadMissingFile(i) ==
  /\ Alive
  /\ task[i] = "running"
  /\ task' = [task EXCEPT ![i] = "crashed"]
  /\ cliPc' = "exited"
  /\ exitCode' = 1
  /\ UNCHANGED <<fnVars, cleanVars, recorderVars, concurrency, unhandled, done, queue, running,
                 results, awaited, report>>

\* the finally callback of target i: running--, runNext(); after it the
\* promise pushed to results settles like the task.  A rejected promise that
\* Promise.allSettled was not given has no handler.
Finally(i) ==
  /\ Alive
  /\ task[i] \in Settled
  /\ i \notin done
  /\ LET s == runNext([queue |-> queue, running |-> running - 1,
                       results |-> results, task |-> task])
     IN /\ queue' = s.queue
        /\ running' = s.running
        /\ results' = s.results
        /\ task' = s.task
  /\ done' = done \cup {i}
  /\ IF /\ task[i] = "rejected"
        /\ \A k \in 1..Len(awaited) : awaited[k] # i
        /\ unhandled = "throw"
     THEN cliPc' = "exited" /\ exitCode' = 1
     ELSE UNCHANGED <<cliPc, exitCode>>
  /\ UNCHANGED <<fnVars, cleanVars, recorderVars, concurrency, unhandled, awaited, report>>

\* the await of main resumes when every promise given to Promise.allSettled
\* has settled: count, print, process.exit(1) if fail > 0
Report ==
  /\ cliPc = "await"
  /\ \A k \in 1..Len(awaited) : awaited[k] \in done
  /\ LET ok == Cardinality({k \in 1..Len(awaited) : task[awaited[k]] = "fulfilled"})
         fail == Len(awaited) - ok
     IN /\ report' = [ok |-> ok, fail |-> fail]
        /\ IF fail > 0
           THEN cliPc' = "exited" /\ exitCode' = 1
           ELSE cliPc' = "reported" /\ exitCode' = exitCode
  /\ UNCHANGED <<fnVars, cleanVars, recorderVars, concurrency, unhandled, task, done, queue,
                 running, results, awaited>>

\* main has returned and nothing is left to run: the process ends
ExitClean ==
  /\ cliPc = "reported"
  /\ \A i \in DOMAIN task : task[i] # "running" /\ (task[i] \in Settled => i \in done)
  /\ cliPc' = "exited"
  /\ exitCode' = 0
  /\ UNCHANGED <<fnVars, cleanVars, recorderVars, concurrency, unhandled, task, done, queue,
                 running, results, awaited, report>>

\* no recorder is running
NoRecorder ==
  /\ today = 1
  /\ manifest = NoFile
  /\ manifestTmp = NoFile
  /\ lock = NoLock
  /\ files = <<>>
  /\ tmpFiles = <<>>
  /\ nsDir = TRUE
  /\ mode = [p \in Procs |-> "replay"]
  /\ pc = [p \in Procs |-> "idle"]
  /\ call = [p \in Procs |-> NoCall]
  /\ acq = [p \in Procs |-> NoAcq]
  /\ pending = [p \in Procs |-> NoPending]
  /\ outcome = [p \in Procs |-> NoPending]
  /\ hist = [p \in Procs |-> NoHist]
  /\ swap = NoSwap

InitReplay ==
  /\ NoRecorder
  /\ NoClean
  /\ NoFn
  /\ concurrency \in 0..MaxConcurrency
  /\ unhandled \in {"throw", "warn"}
  /\ \E t \in 0..MaxTargets : task = [i \in 1..t |-> "queued"]
  /\ done = {}
  /\ queue = <<>>
  /\ running = 0
  /\ results = <<>>
  /\ awaited = <<>>
  /\ cliPc = "main"
  /\ report = NoReport
  /\ exitCode = Nil

NextReplay ==
  \/ LimitConcurrency
  \/ \E i \in DOMAIN task, how \in Settled : Settle(i, how)
  \/ \E i \in DOMAIN task : ReadMissingFile(i)
  \/ \E i \in DOMAIN task : Finally(i)
  \/ Report
  \/ ExitClean

SpecReplay == InitReplay /\ [][NextReplay]_vars

\* every started task settles in the end, and the event loop runs every
\* callback that is due; a batch file need not be missing
SpecReplayFair ==
  /\ SpecReplay
  /\ WF_vars(LimitConcurrency)
  /\ WF_vars(\E i \in DOMAIN task, how \in Settled : Settle(i, how))
  /\ WF_vars(\E i \in DOMAIN task : Finally(i))
  /\ WF_vars(Report)
  /\ WF_vars(ExitClean)

(***************************************************************************)
(* The retention tool (clean.ts).  A tree maps the entries of the          *)
(* fingerprint directories, <<namespace, name>>, to the bytes below them.  *)
(* Time is in ticks, DayMs of them to the day.                             *)
(***************************************************************************)
MaxDate == 2
MaxBudget == 2
MaxFolders == 2
DayMs == 2
Namespaces == {1, 2}

\* names of directory entries: the date of a day, a name of the same shape
\* that is no date (2024-13-45), and manifest.json
DateName(d) == [kind |-> "date", day |-> d]
BadDate == [kind |-> "baddate", day |-> 0]
ManifestName == [kind |-> "file", day |-> 0]

\* /^\d{4}-\d{2}-\d{2}$/.test(name)
isDateFolder(name) == name.kind \in {"date", "baddate"}

\* new Date(day + 'T00:00:00Z').getTime()
DateTs(name) == IF name.kind = "date" THEN Num(name.day * DayMs) ELSE NaN

RECURSIVE SetToSeq(_)
SetToSeq(S) ==
  IF S = {} THEN <<>>
  ELSE LET x == CHOOSE y \in S : TRUE IN <<x>> \o SetToSeq(S \ {x})

Rank(name) ==
  IF name.kind = "date" THEN name.day
  ELSE IF name.kind = "baddate" THEN MaxDate + 1 ELSE MaxDate + 2

\* the walk without the tests of filters.projects and filters.chains
Walk_NoFilters(t, scope) ==
  LET ps == SetToSeq(DOMAIN t)
  IN Unkey(SortByKey([i \in 1..Len(ps) |->
                        [k |-> ps[i][1] * (MaxDate + 3) + Rank(ps[i][2]),
                         v |-> ps[i]]]))

\* the entries the nested readdir loops visit, in their order: the
\* fingerprint directories the filters select, one after the other
Walk(t, scope) ==
  LET ps == SetToSeq({p \in DOMAIN t : p[1] \in scope})
  IN Unkey(SortByKey([i \in 1..Len(ps) |->
                        [k |-> ps[i][1] * (MaxDate + 3) + Rank(ps[i][2]),
                         v |-> ps[i]]]))

dirSizeBytes(t, p) == IF p \in DOMAIN t THEN t[p] ELSE 0
rmrf(t, p) == [q \in DOMAIN t \ {p} |-> t[q]]

\* the loop body of pruneByDays over the entries visited
RECURSIVE DaysWalk(_, _, _, _, _)
DaysWalk(entries, t, cutoff, dryRun, acc) ==
  IF entries = <<>> THEN [tree |-> t, logged |-> acc]
  ELSE LET p == Head(entries)
           ts == DateTs(p[2])
       IN IF \/ ~isDateFolder(p[2])
             \/ p \notin DOMAIN t
             \/ isNaN(ts)
             \/ Gt(ts, cutoff)
          THEN DaysWalk(Tail(entries), t, cutoff, dryRun, acc)
          ELSE DaysWalk(Tail(entries), IF dryRun THEN t ELSE rmrf(t, p),
                        cutoff, dryRun, Append(acc, p))

pruneByDays(t, nowMs, days, scope, dryRun) ==
  DaysWalk(Walk(t, scope), t, Minus(Num(nowMs), Times(days, Num(DayMs))),
           dryRun, <<>>)

RECURSIVE SumSizes(_, _)
SumSizes(t, ps) ==
  IF ps = <<>> THEN 0 ELSE dirSizeBytes(t, Head(ps)) + SumSizes(t, Tail(ps))

totalSize(t, scope) == Num(SumSizes(t, Walk(t, scope)))

\* the date folders in the order of the walk, without the sort
collectDateFolders_Unsorted(t, scope) ==
  SelectSeq(Walk(t, scope),
            LAMBDA p : isDateFolder(p[2]) /\ ~isNaN(DateTs(p[2])))

\* items.sort((a, b) => a.date - b.date) over the date folders
collectDateFolders(t, scope) ==
  LET items == SelectSeq(Walk(t, scope),
                         LAMBDA p : isDateFolder(p[2]) /\ ~isNaN(DateTs(p[2])))
  IN Unkey(SortByKey([i \in 1..Len(items) |->
                        [k |-> DateTs(items[i][2]).v, v |-> items[i]]]))

\* the loop of pruneBySize with current -= sz only when something is deleted
RECURSIVE SizeWalk_DryKeepsTotal(_, _, _, _, _, _)
SizeWalk_DryKeepsTotal(folders, t, current, maxBytes, dryRun, acc) ==
  IF folders = <<>> THEN [tree |-> t, logged |-> acc, est |-> current]
  ELSE LET item == Head(folders)
           sz == dirSizeBytes(t, item)
           t2 == IF dryRun THEN t ELSE rmrf(t, item)
           cur == IF dryRun THEN current ELSE Minus(current, Num(sz))
           acc2 == Append(acc, item)
       IN IF Le(cur, maxBytes)
          THEN [tree |-> t2, logged |-> acc2, est |-> cur]
          ELSE SizeWalk_DryKeepsTotal(Tail(folders), t2, cur, maxBytes, dryRun, acc2)

\* for (const item of folders) { sz; log; rmrf unless dryRun; current -= sz;
\*   removed++; if (current <= maxBytes) break }
RECURSIVE SizeWalk(_, _, _, _, _, _)
SizeWalk(folders, t, current, maxBytes, dryRun, acc) ==
  IF folders = <<>> THEN [tree |-> t, logged |-> acc, est |-> current]
  ELSE LET item == Head(folders)
           sz == dirSizeBytes(t, item)
           t2 == IF dryRun THEN t ELSE rmrf(t, item)
           cur == Minus(current, Num(sz))
           acc2 == Append(acc, item)
       IN IF Le(cur, maxBytes)
          THEN [tree |-> t2, logged |-> acc2, est |-> cur]
          ELSE SizeWalk(Tail(folders), t2, cur, maxBytes, dryRun, acc2)

pruneBySize(t, maxBytes, scope, dryRun) ==
  LET current == totalSize(t, scope)
  IN IF Le(current, maxBytes)
     THEN [tree |-> t, logged |-> <<>>, est |-> current]
     ELSE SizeWalk(collectDateFolders(t, scope), t, current, maxBytes, dryRun, <<>>)

\* main: if (args.days != null) pruneByDays(...)
PruneByDays ==
  /\ cleanPc = "main"
  /\ args.days # NoArg
  /\ LET r == pruneByDays(tree, now, args.days, args.scope, args.dryRun)
     IN /\ tree' = r.tree
        /\ cleanLog' = [cleanLog EXCEPT !.ageRan = TRUE, !.ageBefore = tree,
                                        !.ageLogged = r.logged,
                                        !.ageAfter = r.tree]
  /\ cleanPc' = "aged"
  /\ UNCHANGED <<fnVars, recorderVars, replayVars, now, args>>

\* main: if (args.maxBytes != null) pruneBySize(...)
PruneBySize ==
  /\ cleanPc = (IF args.days = NoArg THEN "main" ELSE "aged")
  /\ args.maxBytes # NoArg
  /\ LET r == pruneBySize(tree, args.maxBytes, args.scope, args.dryRun)
     IN /\ tree' = r.tree
        /\ cleanLog' = [cleanLog EXCEPT !.sizeRan = TRUE, !.sizeBefore = tree,
                                        !.sizeLogged = r.logged,
                                        !.sizeAfter = r.tree,
                                        !.sizeEst = r.est]
  /\ cleanPc' = "done"
  /\ UNCHANGED <<fnVars, recorderVars, replayVars, now, args>>

\* main returns after pruneByDays when no size budget was given
CleanReturn ==
  /\ cleanPc = "aged"
  /\ args.maxBytes = NoArg
  /\ cleanPc' = "done"
  /\ UNCHANGED <<fnVars, recorderVars, replayVars, tree, now, args, cleanLog>>

\* the date partitions a tree can hold, and what else lies beside them
Parts == {<<ns, DateName(d)>> : ns \in Namespaces, d \in 0..MaxDate}
Extras == {<<1, ManifestName>>, <<1, BadDate>>}
TreeOver(D, X, sz) == [p \in D \cup X |-> IF p \in D THEN sz[p] ELSE 1]
Trees ==
  UNION {UNION {{TreeOver(D, X, sz) : sz \in [D -> 1..2]} : X \in {{}, Extras}} :
           D \in {E \in SUBSET Parts : Cardinality(E) <= MaxFolders}}

DaysArgs == {NoArg, NaN} \cup {Num(d) : d \in 0..MaxDate}
BytesArgs == {NoArg, NaN} \cup {Num(b) : b \in 0..MaxBudget}

InitClean ==
  /\ NoRecorder
  /\ NoReplay
  /\ NoFn
  /\ tree \in Trees
  /\ now \in {MaxDate * DayMs, MaxDate * DayMs + 1}
  /\ args \in {a \in [days : DaysArgs, maxBytes : BytesArgs,
                       scope : {Namespaces, {1}}, dryRun : BOOLEAN] :
                 a.days # NoArg \/ a.maxBytes # NoArg}
  /\ cleanPc = "main"
  /\ cleanLog = NoCleanLog

NextClean ==
  \/ PruneByDays
  \/ PruneBySize
  \/ CleanReturn

SpecClean == InitClean /\ [][NextClean]_vars

(***************************************************************************)
(* The codec of fileio.ts at the level of text.  A text is a sequence of   *)
(* tokens, LF the line feed; gzip and gunzip give the text back in chunks. *)
(***************************************************************************)
MaxRows == 2
LF == "<LF>"
Numerals == 0..(MaxHeight + 2)
CodecRows == {[height |-> h, tag |-> g] : h \in Heights, g \in 1..2}

\* JSON.stringify(header), JSON.stringify(r)
StringifyHeader(h) == <<"{", "header", ToString(h[1]), ToString(h[2]), "}">>
StringifyRow(r) == <<"{", ToString(r.height), ToString(r.tag), "}">>

IsNumeral(tok) == \E n \in Numerals : ToString(n) = tok
ParseInt(tok) == CHOOSE n \in Numerals : ToString(n) = tok

\* JSON.parse(line): the value, or a SyntaxError
JSONparse(line) ==
  IF /\ Len(line) = 4 /\ line[1] = "{" /\ line[4] = "}"
     /\ IsNumeral(line[2]) /\ IsNumeral(line[3])
  THEN [ok |-> TRUE, v |-> [height |-> ParseInt(line[2]), tag |-> ParseInt(line[3])]]
  ELSE IF /\ Len(line) = 5 /\ line[1] = "{" /\ line[2] = "header" /\ line[5] = "}"
          /\ IsNumeral(line[3]) /\ IsNumeral(line[4])
  THEN [ok |-> TRUE, v |-> <<ParseInt(line[3]), ParseInt(line[4])>>]
  ELSE [ok |-> FALSE, v |-> <<>>]

\* gz.write(JSON.stringify(header) + '\n'); for (r of rows) gz.write(... + '\n')
RECURSIVE WriteRows(_)
WriteRows(rows) ==
  IF rows = <<>> THEN <<>>
  ELSE StringifyRow(Head(rows)) \o <<LF>> \o WriteRows(Tail(rows))

gzipWriteNDJSON(header, rows) == StringifyHeader(header) \o <<LF>> \o WriteRows(rows)

\* buf.indexOf('\n'), counted from 1; 0 when there is none
IndexOfLF(buf) ==
  IF \E i \in 1..Len(buf) : buf[i] = LF
  THEN CHOOSE i \in 1..Len(buf) : buf[i] = LF /\ \A j \in 1..(i - 1) : buf[j] # LF
  ELSE 0

\* the inner loop with a header flag that is never cleared
RECURSIVE Drain_FirstNeverCleared(_, _)
Drain_FirstNeverCleared(st, skipHeader) ==
  LET idx == IndexOfLF(st.buf)
      line == SubSeq(st.buf, 1, idx - 1)
      rest == [st EXCEPT !.buf = SubSeq(st.buf, idx + 1, Len(st.buf))]
  IN IF idx = 0 \/ st.err THEN st
     ELSE IF line = <<>> THEN Drain_FirstNeverCleared(rest, skipHeader)
     ELSE IF st.first /\ skipHeader
          THEN Drain_FirstNeverCleared(rest, skipHeader)
     ELSE IF JSONparse(line).ok
          THEN Drain_FirstNeverCleared([rest EXCEPT !.rows = Append(@, JSONparse(line).v)],
                                       skipHeader)
     ELSE [rest EXCEPT !.err = TRUE]

\* while ((idx = buf.indexOf('\n')) >= 0) { line; buf; skip an empty line;
\*   skip the first line when skipHeader; rows.push(JSON.parse(line)) }
RECURSIVE Drain(_, _)
Drain(st, skipHeader) ==
  LET idx == IndexOfLF(st.buf)
      line == SubSeq(st.buf, 1, idx - 1)
      rest == [st EXCEPT !.buf = SubSeq(st.buf, idx + 1, Len(st.buf))]
  IN IF idx = 0 \/ st.err THEN st
     ELSE IF line = <<>> THEN Drain(rest, skipHeader)
     ELSE IF st.first /\ skipHeader
          THEN Drain([rest EXCEPT !.first = FALSE], skipHeader)
     ELSE IF JSONparse(line).ok
          THEN Drain([rest EXCEPT !.rows = Append(@, JSONparse(line).v)], skipHeader)
     ELSE [rest EXCEPT !.err = TRUE]

\* for await (const chunk of gunzip) { buf += chunk; ... }
RECURSIVE ReadChunks(_, _, _)
ReadChunks(chunks, st, skipHeader) ==
  IF chunks = <<>> THEN st
  ELSE ReadChunks(Tail(chunks),
                  Drain([st EXCEPT !.buf = @ \o Head(chunks)], skipHeader),
                  skipHeader)

\* gunzipReadNDJSON over the chunks of a text: if (rows.length) yield rows
gunzipReadChunks(chunks, skipHeader) ==
  LET st == ReadChunks(chunks, [buf |-> <<>>, first |-> TRUE, rows |-> <<>>,
                                err |-> FALSE], skipHeader)
  IN IF st.err THEN [kind |-> "throw", groups |-> <<>>]
     ELSE [kind |-> "return",
           groups |-> IF st.rows # <<>> THEN <<st.rows>> ELSE <<>>]

NoCodec == [written |-> FALSE, text |-> <<>>, read |-> FALSE, cut |-> 0,
            skipHeader |-> FALSE, kind |-> "none", groups |-> <<>>]

\* gzipWriteNDJSON has run: the text is in the file at the final path
CodecWrite ==
  /\ ~fnResult.written
  /\ fnResult' = [fnResult EXCEPT !.written = TRUE,
                     !.text = gzipWriteNDJSON(fnArgs.header, fnArgs.rows)]
  /\ UNCHANGED <<recorderVars, replayVars, cleanVars, fnArgs>>

\* gunzipReadNDJSON has been iterated to its end; the stream delivered the
\* text in two chunks, cut anywhere
CodecRead(cut, skipHeader) ==
  /\ fnResult.written
  /\ ~fnResult.read
  /\ cut \in 0..Len(fnResult.text)
  /\ LET text == fnResult.text
         r == gunzipReadChunks(<<SubSeq(text, 1, cut),
                                 SubSeq(text, cut + 1, Len(text))>>, skipHeader)
     IN fnResult' = [fnResult EXCEPT !.read = TRUE, !.cut = cut,
                       !.skipHeader = skipHeader, !.kind = r.kind,
                       !.groups = r.groups]
  /\ UNCHANGED <<recorderVars, replayVars, cleanVars, fnArgs>>

CodecInputs ==
  {[header |-> IF rows = <<>> THEN <<0, 0>>
               ELSE <<rows[1].height, rows[Len(rows)].height>>,
    rows |-> rows] :
     rows \in UNION {[1..n -> CodecRows] : n \in 0..MaxRows}}

InitCodec ==
  /\ NoRecorder
  /\ NoReplay
  /\ NoClean
  /\ fnArgs \in CodecInputs
  /\ fnResult = NoCodec

NextCodec ==
  \/ CodecWrite
  \/ \E cut \in 0..Len(fnResult.text), skipHeader \in BOOLEAN :
       CodecRead(cut, skipHeader)

SpecCodec == InitCodec /\ [][NextCodec]_vars

(***************************************************************************)
(* The fingerprint of a namespace: stableHash16 of {project, chain,        *)
(* identity}.  An identity is an object: its properties in the order they  *)
(* were inserted.                                                          *)
(***************************************************************************)
Keys == {"contract", "version"}
Vals == {1, 2}
Projects == {"events", "analytics"}

Identities ==
  {id \in UNION {[1..n -> Keys \X Vals] : n \in 0..Cardinality(Keys)} :
     \A i, j \in 1..Len(id) : i # j => id[i][1] # id[j][1]}

\* JSON.stringify of an object: its properties in insertion order
RECURSIVE StringifyProps(_)
StringifyProps(id) ==
  IF id = <<>> THEN <<>>
  ELSE <<Head(id)[1], ":", ToString(Head(id)[2]), ",">> \o StringifyProps(Tail(id))

JSONstringify(obj) ==
  <<"{", "project", ":", obj.project, ",", "chain", ":", obj.chain, ",",
    "identity", ":", "{">> \o StringifyProps(obj.identity) \o <<"}", "}">>

\* sha256 digest in hex, cut to 16 characters: taken as free of collisions,
\* one digest per text
Sha256Hex16(text) == [digest |-> text]

stableHash16(obj) == Sha256Hex16(JSONstringify(obj))

\* makeRecorder: configHash and base = path.join(root, project, chain, configHash)
NamespaceOf(init) ==
  LET configHash == stableHash16([project |-> init.project, chain |-> init.chain,
                                  identity |-> init.configIdentity])
  IN [configHash |-> configHash, base |-> <<init.project, init.chain, configHash>>]

\* two calls of makeRecorder
MakeRecorders ==
  /\ ~fnResult.made
  /\ fnResult' = [made |-> TRUE, a |-> NamespaceOf(fnArgs.a), b |-> NamespaceOf(fnArgs.b)]
  /\ UNCHANGED <<recorderVars, replayVars, cleanVars, fnArgs>>

RecorderInits == [project : Projects, chain : {"base"}, configIdentity : Identities]

InitHash ==
  /\ NoRecorder
  /\ NoReplay
  /\ NoClean
  /\ fnArgs \in [a : RecorderInits, b : RecorderInits]
  /\ fnResult = [made |-> FALSE, a |-> <<>>, b |-> <<>>]

NextHash == MakeRecorders

SpecHash == InitHash /\ [][NextHash]_vars

(***************************************************************************)
(* fullyCovered on its own: a range and a list of well-formed segments in  *)
(* any order.                                                              *)
(***************************************************************************)
MaxSegs == 3
Segments == {x \in [min : Heights, max : Heights] : x.min <= x.max}

CoverInputs ==
  [aMin : Heights, aMax : Heights,
   segs : UNION {[1..n -> Segments] : n \in 0..MaxSegs}]

CallFullyCovered ==
  /\ ~fnResult.called
  /\ fnResult' = [called |-> TRUE,
                  covered |-> fullyCovered(fnArgs.aMin, fnArgs.aMax, fnArgs.segs)]
  /\ UNCHANGED <<recorderVars, replayVars, cleanVars, fnArgs>>

InitCover ==
  /\ NoRecorder
  /\ NoReplay
  /\ NoClean
  /\ fnArgs \in CoverInputs
  /\ fnResult = [called |-> FALSE, covered |-> FALSE]

NextCover == CallFullyCovered

SpecCover == InitCover /\ [][NextCover]_vars

(***************************************************************************)
(* runTarget of the replay command line: the files of the manifest are     *)
(* walked in order, a file outside the block range is passed over, the     *)
(* groups of the others are filtered and handed to the runner.  fromBlock  *)
(* and toBlock are Number(argv) of parseArgs: absent, a number, or NaN.    *)
(***************************************************************************)
\* fileInRange(fileMin, fileMax, fromB, toB)
fileInRange(fileMin, fileMax, fromB, toB) ==
  IF fromB # NoArg /\ Gt(fromB, Num(fileMax)) THEN FALSE
  ELSE IF toB # NoArg /\ Gt(Num(fileMin), toB) THEN FALSE
  ELSE TRUE

\* filterBlocks(blocks, fromB, toB)
filterBlocks(blocks, fromB, toB) ==
  IF fromB = NoArg /\ toB = NoArg THEN blocks
  ELSE SelectSeq(blocks, LAMBDA b :
         IF fromB # NoArg /\ Gt(fromB, Num(b.height)) THEN FALSE
         ELSE IF toB # NoArg /\ Gt(Num(b.height), toB) THEN FALSE
         ELSE TRUE)

\* for await (const blocks of rec.readFile(f.absPath)): the batches handed
\* to runner.replayBatch, an empty sub is passed over
RECURSIVE Deliver(_, _, _)
Deliver(groups, fromB, toB) ==
  IF groups = <<>> THEN <<>>
  ELSE LET sub == filterBlocks(Head(groups), fromB, toB)
       IN (IF Len(sub) = 0 THEN <<>> ELSE <<sub>>)
            \o Deliver(Tail(groups), fromB, toB)

\* pc: where runTarget stands; rest: the files still to walk; read: the
\* files opened; calls: the batches given to runner.replayBatch; open:
\* the calls of replayBatch that have not settled; runner: the import
NoTarget == [pc |-> "start", rest |-> <<>>, read |-> {}, calls |-> <<>>,
             open |-> {}, runner |-> "none"]

\* rec.listReplayFiles() and the test of files.length
ListFiles ==
  /\ fnResult.pc = "start"
  /\ LET m == ParseManifest(manifest)
         listed == ResolveEntries(m.files)
     IN fnResult' =
          IF ~m.hasFiles THEN [fnResult EXCEPT !.pc = "threw"]
          ELSE IF Len(listed) = 0 THEN [fnResult EXCEPT !.pc = "skipped"]
          ELSE [fnResult EXCEPT !.pc = "import", !.rest = listed]
  /\ nsDir' = TRUE
  /\ UNCHANGED <<today, manifest, manifestTmp, lock, files, tmpFiles, mode, pc,
                 call, acq, pending, outcome, hist, swap, replayVars, cleanVars,
                 fnArgs>>

\* const runner = await dynImportRunner(t.runner): a module that cannot be
\* imported or exports no function replayBatch makes it throw
LoadRunner(valid) ==
  /\ fnResult.pc = "import"
  /\ fnResult' = IF valid
                 THEN [fnResult EXCEPT !.pc = "files", !.runner = "loaded"]
                 ELSE [fnResult EXCEPT !.pc = "threw", !.runner = "invalid"]
  /\ UNCHANGED <<recorderVars, replayVars, cleanVars, fnArgs>>

\* if (!fileInRange(...)) continue
SkipFile ==
  /\ fnResult.pc = "files"
  /\ fnResult.rest # <<>>
  /\ LET f == Head(fnResult.rest)
     IN ~fileInRange(f.minBlock, f.maxBlock, fnArgs.fromBlock, fnArgs.toBlock)
  /\ fnResult' = [fnResult EXCEPT !.rest = Tail(@)]
  /\ UNCHANGED <<recorderVars, replayVars, cleanVars, fnArgs>>

\* the inner loop over one file that is in range, with a replayBatch that
\* is not awaited
ReplayFile_NoAwait ==
  /\ fnResult.pc = "files"
  /\ fnResult.rest # <<>>
  /\ LET f == Head(fnResult.rest)
         subs == Deliver(readFile(f.absPath), fnArgs.fromBlock, fnArgs.toBlock)
         n == Len(fnResult.calls)
     IN /\ fileInRange(f.minBlock, f.maxBlock, fnArgs.fromBlock, fnArgs.toBlock)
        /\ FileState(f.absPath) # "missing"
        /\ IF FileState(f.absPath) # "complete"
           THEN fnResult' = [fnResult EXCEPT !.pc = "threw",
                                             !.read = @ \cup {f.absPath}]
           ELSE fnResult' = [fnResult EXCEPT
                  !.rest = Tail(@),
                  !.read = @ \cup {f.absPath},
                  !.calls = @ \o subs,
                  !.open = @ \cup ((n + 1)..(n + Len(subs)))]
  /\ UNCHANGED <<recorderVars, replayVars, cleanVars, fnArgs>>

\* the inner loop over one file that is in range: its group is filtered
\* and, unless nothing is left of it, given to runner.replayBatch, whose
\* promise is awaited
ReplayFile ==
  /\ fnResult.pc = "files"
  /\ fnResult.rest # <<>>
  /\ LET f == Head(fnResult.rest)
         subs == Deliver(readFile(f.absPath), fnArgs.fromBlock, fnArgs.toBlock)
         n == Len(fnResult.calls)
     IN /\ fileInRange(f.minBlock, f.maxBlock, fnArgs.fromBlock, fnArgs.toBlock)
        /\ FileState(f.absPath) # "missing"
        /\ IF FileState(f.absPath) # "complete"
           THEN fnResult' = [fnResult EXCEPT !.pc = "threw",
                                             !.read = @ \cup {f.absPath}]
           ELSE fnResult' = [fnResult EXCEPT
                  !.pc = IF subs = <<>> THEN @ ELSE "inCall",
                  !.rest = Tail(@),
                  !.read = @ \cup {f.absPath},
                  !.calls = @ \o subs,
                  !.open = @ \cup ((n + 1)..(n + Len(subs)))]
  /\ UNCHANGED <<recorderVars, replayVars, cleanVars, fnArgs>>

\* the promise of runner.replayBatch settles: the loop goes on, or the
\* rejection leaves runTarget
ReplaySettles(rejected) ==
  /\ fnResult.pc = "inCall"
  /\ fnResult' = [fnResult EXCEPT !.pc = IF rejected THEN "threw" ELSE "files",
                                  !.open = {}]
  /\ UNCHANGED <<recorderVars, replayVars, cleanVars, fnArgs>>

\* a file in range that is listed and gone: the read stream's error ends
\* the process
OpenMissingFile ==
  /\ fnResult.pc = "files"
  /\ fnResult.rest # <<>>
  /\ LET f == Head(fnResult.rest)
     IN /\ fileInRange(f.minBlock, f.maxBlock, fnArgs.fromBlock, fnArgs.toBlock)
        /\ FileState(f.absPath) = "missing"
        /\ fnResult' = [fnResult EXCEPT !.pc = "crashed",
                                        !.read = @ \cup {f.absPath}]
  /\ UNCHANGED <<recorderVars, replayVars, cleanVars, fnArgs>>

\* the loop is over: "Done"
TargetDone ==
  /\ fnResult.pc = "files"
  /\ fnResult.rest = <<>>
  /\ fnResult' = [fnResult EXCEPT !.pc = "done"]
  /\ UNCHANGED <<recorderVars, replayVars, cleanVars, fnArgs>>

BlockArgs == {NoArg, NaN} \cup {Num(h) : h \in Heights}

InitTarget ==
  /\ today = 2
  /\ \E c \in SwapCaches : manifest = c.manifest /\ files = c.files
  /\ manifestTmp = NoFile
  /\ lock = NoLock
  /\ tmpFiles = <<>>
  /\ nsDir \in NsDirs
  /\ mode = [p \in Procs |-> "replay"]
  /\ pc = [p \in Procs |-> "idle"]
  /\ call = [p \in Procs |-> NoCall]
  /\ acq = [p \in Procs |-> NoAcq]
  /\ pending = [p \in Procs |-> NoPending]
  /\ outcome = [p \in Procs |-> NoPending]
  /\ hist = [p \in Procs |-> NoHist]
  /\ swap = NoSwap
  /\ NoReplay
  /\ NoClean
  /\ fnArgs \in [fromBlock : BlockArgs, toBlock : BlockArgs]
  /\ fnResult = NoTarget

NextTarget ==
  \/ ListFiles
  \/ SkipFile
  \/ \E valid \in BOOLEAN : LoadRunner(valid)
  \/ ReplayFile
  \/ \E rejected \in BOOLEAN : ReplaySettles(rejected)
  \/ OpenMissingFile
  \/ TargetDone

SpecTarget == InitTarget /\ [][NextTarget]_vars

(***************************************************************************)
(* Properties                                                              *)
(***************************************************************************)
RECURSIVE Count(_, _)
Count(e, s) ==
  IF s = <<>> THEN 0
  ELSE (IF s[Len(s)] = e THEN 1 ELSE 0) + Count(e, SubSeq(s, 1, Len(s) - 1))

Range(s) == {s[i] : i \in 1..Len(s)}
SortedByMin(s) == \A i \in 1..(Len(s) - 1) : s[i].minBlock <= s[i + 1].minBlock
AllIdle == \A p \in Procs : pc[p] \in {"idle", "crashed"}

RECURSIVE SumPushed(_, _)
SumPushed(e, P) ==
  IF P = {} THEN 0
  ELSE LET p == CHOOSE x \in P : TRUE
       IN Count(e, hist[p].pushed) + SumPushed(e, P \ {p})

\* the manifest has been read and the result is not yet renamed into place
InWindow(p) == pc[p] \in {"writeTmp", "rename"}

\* C1: the read-modify-write windows of two processes never overlap, and
\* once all calls have ended the manifest holds exactly the entries of the
\* mutations that returned, each once: no update is lost.
C1_MutualExclusion ==
  /\ \A p, q \in Procs : p # q => ~(InWindow(p) /\ InWindow(q))
  /\ AllIdle =>
       \A p \in Procs : \A e \in Range(hist[p].pushed) :
         Count(e, manifest.files) = SumPushed(e, Procs)

\* C2: a call of withManifest that has ended has left no lock marker of its
\* own behind, however it ended, and when its mutator raised, the call
\* ended by raising that error.
C2_LockRemovedOnExit ==
  \A p \in Procs :
    pc[p] = "idle" =>
      /\ lock.owner # p
      /\ hist[p].mutRaised =>
           outcome[p].kind = "throw" /\ outcome[p].err = "TypeError"

\* a mutator has raised, the call has ended with the error, no marker is left
C2_Witness ==
  \E p \in Procs :
    /\ pc[p] = "idle"
    /\ hist[p].mutRaised
    /\ outcome[p].kind = "throw"
    /\ LockFree

\* the live range of the last call of autoSwapBlocks, the entries whose
\* interval meets it, and whether the intervals leave no height of it out
LiveHeights == {swap.live[i].height : i \in 1..Len(swap.live)}
LiveMin == CHOOSE h \in LiveHeights : \A g \in LiveHeights : h <= g
LiveMax == CHOOSE h \in LiveHeights : \A g \in LiveHeights : h >= g
Overlaps(e) == e.minBlock <= LiveMax /\ LiveMin <= e.maxBlock
Selected == {i \in 1..Len(manifest.files) : Overlaps(manifest.files[i])}
Covered ==
  \A h \in LiveMin..LiveMax :
    \E i \in 1..Len(manifest.files) :
      manifest.files[i].minBlock <= h /\ h <= manifest.files[i].maxBlock
Returned == swap.kind \in {"live", "cached"}
RowsAt(i) == files[manifest.files[i].path].rows
StrictlyAscending(s) == \A k \in 1..(Len(s) - 1) : s[k].height < s[k + 1].height
EndsMatch(s) ==
  Len(s) > 0 /\ s[1].height = LiveMin /\ s[Len(s)].height = LiveMax

\* C3: when full coverage is required, a call that returns gives back the
\* live batches themselves or one batch for each height of [min, max], in
\* order and nothing else.
C3_FullOrLive ==
  (swap.requireFull /\ Returned) =>
    \/ swap.out = swap.live
    \/ /\ Len(swap.out) = LiveMax - LiveMin + 1
       /\ \A k \in 1..Len(swap.out) : swap.out[k].height = LiveMin + k - 1

\* a replacement of three heights stitched from two files was returned
C3_Witness ==
  /\ swap.requireFull
  /\ swap.kind = "cached"
  /\ Len(swap.out) = 3
  /\ \E j, k \in 1..3 : swap.out[j].tag \div 10 # swap.out[k].tag \div 10

\* C4: when full coverage is required and the intervals of the manifest's
\* entries leave a height of [min, max] out, the call returns the live
\* batches as they are.
C4_FallbackOnGap ==
  (swap.kind # "none" /\ swap.requireFull /\ manifest.kind # "nofiles"
     /\ swap.live # <<>> /\ ~Covered)
  => swap.kind = "live" /\ swap.out = swap.live

\* two selected files with a gap between their intervals, whose rows hold
\* every height of the range: the call fell back to the live batches
C4_Witness ==
  /\ swap.autoOn /\ swap.requireFull /\ swap.kind = "live"
  /\ swap.live # <<>>
  /\ Selected = {1, 2}
  /\ manifest.files[1].maxBlock + 1 < manifest.files[2].minBlock
  /\ \A i \in Selected : manifest.files[i].path \in DOMAIN files
  /\ \A h \in LiveMin..LiveMax :
       \E i \in Selected : \E j \in 1..Len(RowsAt(i)) : RowsAt(i)[j].height = h

\* what C5 says of every replacement: ascending without duplicates, within
\* [min, max], and each batch the first of its height in the selected files
\* taken in manifest order
SortedDedupInRange ==
  /\ StrictlyAscending(swap.out)
  /\ \A k \in 1..Len(swap.out) :
       /\ swap.out[k].height >= LiveMin
       /\ swap.out[k].height <= LiveMax
       /\ \E i \in Selected : \E j \in 1..Len(RowsAt(i)) :
            /\ RowsAt(i)[j] = swap.out[k]
            /\ \A i2 \in Selected : \A j2 \in 1..Len(RowsAt(i2)) :
                 RowsAt(i2)[j2].height = swap.out[k].height
                 => (i < i2 \/ (i = i2 /\ j <= j2))

\* C5 as stated: a cached replacement is sorted, deduplicated and in range,
\* and whenever the intervals cover [min, max] it starts at min and ends at
\* max.
C5_AsStated ==
  swap.kind = "cached" =>
    /\ SortedDedupInRange
    /\ Covered => EndsMatch(swap.out)

\* C5 amended: a cached replacement is sorted, deduplicated and in range,
\* and whenever full coverage is required it starts at min and ends at max.
C5_SortedDedup ==
  swap.kind = "cached" =>
    /\ SortedDedupInRange
    /\ swap.requireFull => EndsMatch(swap.out)

\* a replacement was returned under required coverage although the files
\* held two batches of one height and a batch outside the range
C5_Witness ==
  /\ swap.kind = "cached" /\ swap.requireFull
  /\ Len(swap.out) >= 2
  /\ \E i \in Selected : \E j \in 1..Len(RowsAt(i)) :
       RowsAt(i)[j].height \notin LiveMin..LiveMax
  /\ \E i, i2 \in Selected : \E j \in 1..Len(RowsAt(i)) :
       \E j2 \in 1..Len(RowsAt(i2)) :
         <<i, j>> # <<i2, j2>> /\ RowsAt(i)[j].height = RowsAt(i2)[j2].height

\* C6: a call made with auto-use off, with no live batches, on a manifest
\* that lists no files, or on one none of whose intervals meets [min, max]
\* returns the live batches as they are and opens no batch file.
C6_PassThrough ==
  (/\ swap.kind # "none"
   /\ \/ ~swap.autoOn
      \/ swap.live = <<>>
      \/ manifest.files = <<>>
      \/ Selected = {})
  => swap.kind = "live" /\ swap.out = swap.live /\ swap.read = {}

\* C11: a call of autoSwapBlocks on a cache with an entry whose batch file
\* is gone returns, and returns what it would return if the manifest did
\* not hold that entry.
C11_MissingFileAsAbsent ==
  (/\ swap.kind # "none"
   /\ \E i \in 1..Len(manifest.files) : manifest.files[i].path \notin DOMAIN files)
  => LET present == SelectSeq(manifest.files, LAMBDA e : e.path \in DOMAIN files)
         r == autoSwapOver(ManifestOf(present), swap.autoOn, swap.requireFull,
                           swap.live)
     IN /\ swap.kind \in {"live", "cached"}
        /\ swap.kind = r.kind
        /\ swap.out = r.out

\* C12: whatever is found at the final path of a batch file, at any moment
\* of any write, is a complete file: the header and all the batches of one
\* call of recordBatch for that path.
C12_FinalPathComplete ==
  \A q \in DOMAIN files :
    /\ files[q].kind = "complete"
    /\ files[q].header = <<q[2], q[3]>>
    /\ Len(files[q].rows) > 0
    /\ MinBlockOf(files[q].rows) = q[2]
    /\ MaxBlockOf(files[q].rows) = q[3]

\* the marker of a process that has died, older than the staleness threshold
StaleDead == lock.owner = Dead /\ lock.age > staleMs
TimeoutError == Throw("Timeout acquiring manifest lock")

\* C13: a call of withManifest that finds, when it looks at the marker, the
\* marker of a dead process older than the staleness threshold goes on to
\* hold the lock itself, in that same call; and a call that has removed a
\* stale marker never ends with the timeout error.
C13_StaleLockRecovery ==
  /\ \A n \in 1..MaxCalls :
       (pc[1] \in {"fast", "age"} /\ StaleDead /\ hist[1].calls = n)
         ~> (lock.owner = 1 /\ hist[1].evicted /\ hist[1].calls = n)
  /\ [](pc[1] = "idle" /\ hist[1].evicted =>
          outcome[1] # TimeoutError /\ hist[1].readKind # "none")

\* the contender has removed the dead process's marker and holds the lock
C13_Witness ==
  /\ pc[1] = "read"
  /\ lock.owner = 1
  /\ hist[1].evicted

\* C14: a contender whose creation attempt fails when it has waited for the
\* timeout or longer ends its call there and then with the timeout error,
\* leaving marker and manifest as they are; it goes to sleep for another
\* retry only while it has waited less; it takes the lock only when no
\* marker is there, removes a marker only after finding it older than the
\* staleness threshold, and a call that timed out has never read the
\* manifest.
C14_LockTimeout ==
  /\ [][\A q \in Procs :
          /\ (pc[q] = "retry" /\ ~LockFree /\ acq[q].waited >= timeoutMs
                 /\ pc'[q] # "retry")
             => /\ pc'[q] = "idle"
                /\ outcome'[q] = TimeoutError
                /\ UNCHANGED <<lock, manifest, manifestTmp, files>>
          /\ (pc[q] = "retry" /\ pc'[q] = "age")
             => acq[q].waited < timeoutMs /\ ~LockFree /\ lock' = lock
          /\ (pc[q] \in {"fast", "retry"} /\ pc'[q] = "read")
             => LockFree /\ lock'.owner = q
          /\ (pc[q] = "age" /\ pc'[q] = "evict") => lock.age > staleMs]_vars
  /\ [](\A q \in Procs :
          (pc[q] = "idle" /\ outcome[q] = TimeoutError)
          => hist[q].readKind = "none" /\ lock.owner # q)

\* a call has ended with the timeout error while the other recorder's
\* marker, not yet stale, is still there
C14_Witness ==
  \E q \in Procs :
    /\ pc[q] = "idle"
    /\ outcome[q] = TimeoutError
    /\ lock.owner \in Procs \ {q}
    /\ lock.age <= staleMs

\* the targets whose runTarget has been started and has not settled
Started == {i \in DOMAIN task : task[i] = "running"}
Failed == {i \in DOMAIN task : task[i] \in {"rejected", "crashed"}}

C16_FailureIsolated ==
  (cliPc = "exited" /\ Failed # {})
  => /\ \A i \in DOMAIN task \ Failed : task[i] = "fulfilled"
     /\ exitCode # 0

\* C17: the number of targets started and not settled never exceeds
\* limitConcurrency's counter, and the counter never exceeds N.
C17_AtMostN ==
  /\ Cardinality(Started) <= running
  /\ running <= concurrency

\* N targets are running, one of them started by a finally callback, and
\* another is still queued
C17_Witness ==
  /\ concurrency > 0
  /\ Cardinality(Started) = concurrency
  /\ Len(results) > Len(awaited)
  /\ queue # <<>>

\* the timestamp lies at or before now - N days
AtOrBefore(ts, nowMs, days) == Le(ts, Minus(Num(nowMs), Times(days, Num(DayMs))))

\* the entries of the selected fingerprint directories whose name has the
\* shape of a date, and those of them that are dates
Shaped(t) == {p \in DOMAIN t : p[1] \in args.scope /\ isDateFolder(p[2])}
Partitions(t) == {p \in Shaped(t) : ~isNaN(DateTs(p[2]))}

RECURSIVE Bytes(_, _)
Bytes(t, S) ==
  IF S = {} THEN 0
  ELSE LET p == CHOOSE q \in S : TRUE IN t[p] + Bytes(t, S \ {p})

FirstOf(s, k) == {s[i] : i \in 1..k}
Without(t, S) == [p \in DOMAIN t \ S |-> t[p]]

\* C18: after pruneByDays has deleted, an entry named like a date under a
\* selected fingerprint directory is gone if and only if its UTC-midnight
\* timestamp is at or before now - N days.
C18_AgePruning ==
  (cleanLog.ageRan /\ ~args.dryRun)
  => \A p \in Shaped(cleanLog.ageBefore) :
       p \notin DOMAIN cleanLog.ageAfter
         <=> AtOrBefore(DateTs(p[2]), now, args.days)

\* C19: pruneBySize deletes nothing when the total is at or under the
\* budget; otherwise what it deletes is, oldest first, the shortest run of
\* date partitions after which the running total is at or under the budget,
\* or all of them when no such run exists.
C19_SizePruning ==
  cleanLog.sizeRan
  => LET before == cleanLog.sizeBefore
         logged == cleanLog.sizeLogged
         parts == Partitions(before)
         total == Bytes(before, {p \in DOMAIN before : p[1] \in args.scope})
         left(k) == Num(total - Bytes(before, FirstOf(logged, k)))
     IN IF Le(Num(total), args.maxBytes)
        THEN logged = <<>> /\ cleanLog.sizeAfter = before
        ELSE /\ Range(logged) \subseteq parts
             /\ Cardinality(Range(logged)) = Len(logged)
             /\ \A i, j \in 1..Len(logged) :
                  i < j => logged[i][2].day <= logged[j][2].day
             /\ \A i \in 1..Len(logged) : \A q \in parts \ Range(logged) :
                  logged[i][2].day <= q[2].day
             /\ \A k \in 0..(Len(logged) - 1) : ~Le(left(k), args.maxBytes)
             /\ Le(left(Len(logged)), args.maxBytes) \/ Range(logged) = parts
             /\ cleanLog.sizeEst = left(Len(logged))
             /\ ~args.dryRun
                => cleanLog.sizeAfter = Without(before, Range(logged))

\* the budget was exceeded and is met after the oldest partitions have been
\* deleted, a newer one being left
C19_Witness ==
  /\ cleanLog.sizeRan
  /\ ~args.dryRun
  /\ cleanLog.sizeLogged # <<>>
  /\ Partitions(cleanLog.sizeAfter) # {}
  /\ Le(cleanLog.sizeEst, args.maxBytes)

\* C20: in a dry run neither phase changes the tree, and each logs and
\* counts what the same phase deletes from that tree when it is not dry.
C20_DryRun ==
  args.dryRun
  => /\ cleanLog.ageRan
        => LET r == pruneByDays(cleanLog.ageBefore, now, args.days, args.scope, FALSE)
           IN /\ cleanLog.ageAfter = cleanLog.ageBefore
              /\ tree = cleanLog.ageBefore
              /\ cleanLog.ageLogged = r.logged
              /\ r.tree = Without(cleanLog.ageBefore, Range(r.logged))
     /\ cleanLog.sizeRan
        => LET r == pruneBySize(cleanLog.sizeBefore, args.maxBytes, args.scope, FALSE)
           IN /\ cleanLog.sizeAfter = cleanLog.sizeBefore
              /\ tree = cleanLog.sizeBefore
              /\ cleanLog.sizeLogged = r.logged
              /\ cleanLog.sizeEst = r.est
              /\ r.tree = Without(cleanLog.sizeBefore, Range(r.logged))

\* a dry run has logged partitions in both phases, and the size phase has
\* left one out
C20_Witness ==
  /\ args.dryRun
  /\ cleanLog.ageRan
  /\ cleanLog.ageLogged # <<>>
  /\ cleanLog.sizeRan
  /\ cleanLog.sizeLogged # <<>>
  /\ Range(cleanLog.sizeLogged) # Partitions(cleanLog.sizeBefore)

\* C21: for every non-empty sequence of rows, the text gzipWriteNDJSON has
\* written is read back with skipHeader as exactly one group, equal to the
\* rows written, element for element and in order, without the header; and
\* reading at the level of text agrees with reading at the level of lines.
C21_RoundTrip ==
  fnResult.read
  => /\ (fnResult.skipHeader /\ fnArgs.rows # <<>>)
        => /\ fnResult.kind = "return"
           /\ fnResult.groups = <<fnArgs.rows>>
     /\ fnResult.groups =
          gunzipReadNDJSON(BatchFile(fnArgs.header[1], fnArgs.header[2], fnArgs.rows),
                           fnResult.skipHeader)

\* two rows have been read back from chunks cut inside a row's line
C21_Witness ==
  /\ fnResult.read
  /\ fnResult.skipHeader
  /\ Len(fnArgs.rows) = 2
  /\ fnResult.cut > 6
  /\ fnResult.cut < Len(fnResult.text)
  /\ fnResult.text[fnResult.cut] # LF

\* two identities with the same properties, whatever their order
SameIdentity(x, y) == Range(x) = Range(y)

\* C22: two recorders with equal project and chain and identities that have
\* the same properties get the same fingerprint and the same directory.
C22_SameNamespace ==
  (/\ fnResult.made
   /\ fnArgs.a.project = fnArgs.b.project
   /\ fnArgs.a.chain = fnArgs.b.chain
   /\ SameIdentity(fnArgs.a.configIdentity, fnArgs.b.configIdentity))
  => /\ fnResult.a.configHash = fnResult.b.configHash
     /\ fnResult.a.base = fnResult.b.base

\* C23: no step replaces or changes what is found at the final path of a
\* batch file.
C23_WriteOnce ==
  [][\A q \in DOMAIN files : q \in DOMAIN files' /\ files'[q] = files[q]]_vars

\* C24: every batch file at its final path holds its rows in ascending
\* order of height, its header's minBlock and maxBlock are the first and the
\* last height, minBlock <= maxBlock and every row lies between them; and
\* the manifest's entries have minBlock <= maxBlock.
C24_BatchSetInvariant ==
  /\ \A q \in DOMAIN files :
       files[q].kind = "complete"
       => LET rows == files[q].rows
              h == files[q].header
          IN /\ \A i, j \in 1..Len(rows) : i < j => rows[i].height <= rows[j].height
             /\ h = <<rows[1].height, rows[Len(rows)].height>>
             /\ h[1] <= h[2]
             /\ \A i \in 1..Len(rows) : h[1] <= rows[i].height /\ rows[i].height <= h[2]
  /\ manifest.kind = "ok"
     => \A i \in 1..Len(manifest.files) :
          manifest.files[i].minBlock <= manifest.files[i].maxBlock

\* height h lies in one of the segments
InSomeSegment(h, segs) ==
  \E i \in 1..Len(segs) : segs[i].min <= h /\ h <= segs[i].max

\* C25: fullyCovered returns true if and only if every height from min to
\* max lies in at least one of the segments.
C25_CoveredIffEveryHeight ==
  fnResult.called
  => (fnResult.covered
        <=> \A h \in fnArgs.aMin..fnArgs.aMax : InSomeSegment(h, fnArgs.segs))

\* the range is covered by two segments that touch without overlapping,
\* given with the higher one first, neither covering it alone
C25_Witness ==
  /\ fnResult.called
  /\ fnResult.covered
  /\ Len(fnArgs.segs) = 2
  /\ fnArgs.segs[2].max + 1 = fnArgs.segs[1].min
  /\ fnArgs.segs[2].min = fnArgs.aMin
  /\ fnArgs.segs[1].max = fnArgs.aMax

\* C26: with N >= 1 every queued task is started in the end; tasks are
\* started in queue order, each once; and the finally callback of a settled
\* task starts the next queued task when there is one.
C26_TaskAdmission ==
  /\ \A i \in 1..MaxTargets :
       (concurrency >= 1 /\ i \in DOMAIN task /\ task[i] = "queued")
         ~> (i \in DOMAIN task /\ task[i] # "queued")
  /\ [][/\ \A k \in 1..Len(results) : k <= Len(results') /\ results'[k] = results[k]
        /\ \A k \in 1..Len(results') : results'[k] = k
        /\ \A i \in DOMAIN task :
             (Alive /\ task[i] \in Settled /\ i \notin done /\ i \in done'
                /\ queue # <<>> /\ concurrency >= 1)
             => task'[Head(queue)] = "running"]_vars

\* the range test of the command line's help: blocks >= fromBlock and
\* <= toBlock, each bound only when it is given
Given(a) == a # NoArg
InBlockRange(h) ==
  /\ Given(fnArgs.fromBlock) => Le(fnArgs.fromBlock, Num(h))
  /\ Given(fnArgs.toBlock) => Le(Num(h), fnArgs.toBlock)
WhollyOutside(f) ==
  \/ Given(fnArgs.fromBlock) /\ Gt(fnArgs.fromBlock, Num(f.maxBlock))
  \/ Given(fnArgs.toBlock) /\ Gt(Num(f.minBlock), fnArgs.toBlock)
Listed == Range(ResolveEntries(ParseManifest(manifest).files))
DeliveredRows == UNION {Range(fnResult.calls[k]) : k \in 1..Len(fnResult.calls)}

\* C27: a file whose interval is wholly outside the range is never opened;
\* every batch handed to the runner is non-empty and holds only heights in
\* the range; and when the target is done, every row in the range of every
\* other listed file has been handed to the runner.
C27_BlockRangeFilter ==
  /\ \A f \in Listed : WhollyOutside(f) => f.absPath \notin fnResult.read
  /\ \A k \in 1..Len(fnResult.calls) :
       /\ fnResult.calls[k] # <<>>
       /\ \A b \in Range(fnResult.calls[k]) : InBlockRange(b.height)
  /\ fnResult.pc = "done" =>
       \A f \in Listed : ~WhollyOutside(f) =>
         \A b \in Range(files[RelPath(f.absPath)].rows) :
           InBlockRange(b.height) => b \in DeliveredRows

\* C28: the retention tool removes only entries named like a date, in a
\* namespace the filters select; every other entry of the tree (the
\* manifest, badly dated and unselected ones included) stays as it is,
\* nothing is added, and the manifest is not written.
C28_RetentionFrame ==
  [][/\ DOMAIN tree' \subseteq DOMAIN tree
     /\ \A p \in DOMAIN tree :
          IF p \in DOMAIN tree'
          THEN tree'[p] = tree[p]
          ELSE p[2].kind = "date" /\ p[1] \in args.scope
     /\ manifest' = manifest]_vars

\* a partition was deleted beside a manifest, a name that is no date and a
\* partition of a namespace outside the filters
C28_Witness ==
  /\ cleanPc = "done"
  /\ ~args.dryRun
  /\ args.scope # Namespaces
  /\ Len(cleanLog.ageLogged) + Len(cleanLog.sizeLogged) > 0
  /\ Extras \subseteq DOMAIN tree
  /\ \E p \in DOMAIN tree : p[1] \notin args.scope /\ p[2].kind = "date"

\* C29: a contended attempt in the wait loop that does not time out is
\* followed by a sleep of min(delay + jitter, maxDelayMs) with
\* 0 <= jitter < jitterMs, which is at most maxDelayMs; delay then becomes
\* min(floor(delay * backoffFactor), maxDelayMs), which is at most
\* maxDelayMs and, the factor being >= 1, not below what it was once
\* capped; and the loop goes on to its next attempt only when the sleep is
\* over.
C29_LockBackoff ==
  [][\A p \in Procs :
       /\ (pc[p] = "retry" /\ pc'[p] = "age") =>
            /\ \E jitter \in 0..(jitterMs - 1) :
                 acq'[p].sleep = Min(acq[p].delay + jitter, maxDelayMs)
            /\ acq'[p].sleep <= maxDelayMs
            /\ acq'[p].delay = Min((acq[p].delay * backoffNum) \div backoffDen, maxDelayMs)
            /\ acq'[p].delay <= maxDelayMs
            /\ backoffNum >= backoffDen => acq'[p].delay >= Min(acq[p].delay, maxDelayMs)
       /\ (pc[p] = "age" /\ pc'[p] # "age") => acq[p].sleep = 0
       /\ (pc[p] = "age" /\ pc'[p] = "age") =>
            acq'[p].delay = acq[p].delay /\ acq'[p].sleep <= acq[p].sleep]_vars

\* a second sleep in one call: delay had reached maxDelayMs, so both the
\* sleep and the next delay are the capped values
C29_Witness ==
  \E p \in Procs :
    /\ pc[p] = "age"
    /\ acq[p].waited >= baseDelayMs
    /\ acq[p].waited < timeoutMs
    /\ acq[p].sleep = maxDelayMs
    /\ acq[p].delay = maxDelayMs

\* C30: a lock marker disappears only in a step of the process that created
\* it, or when its age is above staleMs at that moment.
C30_RemovalByOwnerOrStale ==
  [][(~LockFree /\ lock'.owner # lock.owner) =>
       \E p \in Procs :
         /\ pc'[p] # pc[p]
         /\ lock.owner = p \/ lock.age > staleMs]_vars

\* the file at path q is the complete output of one call for that path
CompleteAt(fs, q) ==
  /\ q \in DOMAIN fs
  /\ fs[q].kind = "complete"
  /\ fs[q].header = <<q[2], q[3]>>
  /\ Len(fs[q].rows) > 0
  /\ MinBlockOf(fs[q].rows) = q[2]
  /\ MaxBlockOf(fs[q].rows) = q[3]
EntriesOf(m) == IF m.kind = "ok" THEN Range(m.files) ELSE {}

\* C31: every entry that becomes visible in the manifest names a batch file
\* that is complete at its final path at that moment, and at no moment does
\* the manifest hold an entry whose file is not there; a call that stops
\* between the two steps leaves a file without an entry.
C31_FileBeforeEntry ==
  [][/\ \A e \in EntriesOf(manifest') \ EntriesOf(manifest) :
          CompleteAt(files, e.path) /\ CompleteAt(files', e.path)
     /\ \A e \in EntriesOf(manifest') : e.path \in DOMAIN files']_vars

\* C32: in a call of withManifest whose mutator raises, no step of the
\* caller changes manifest.json or its temporary file, and the call ends
\* with the mutator's error.
C32_MutationErrorKeepsManifest ==
  [][\A p \in Procs :
       (pc'[p] # pc[p] /\ hist'[p].mutRaised) =>
         /\ manifest' = manifest
         /\ manifestTmp' = manifestTmp
         /\ pc[p] = "read" => pending'[p] = Throw("TypeError")
         /\ pc[p] = "release" => outcome'[p] = Throw("TypeError")]_vars

\* a recordBatch call has ended with the mutator's TypeError over a
\* manifest that parses and has no files array
C32_Witness ==
  \E p \in Procs :
    /\ pc[p] = "idle"
    /\ hist[p].mutRaised
    /\ outcome[p] = Throw("TypeError")
    /\ manifest.kind = "nofiles"

\* C33: a call of autoSwapBlocks with live batches that returns, returns
\* at least one batch.
C33_NonEmptyReplacement ==
  (Returned /\ swap.live # <<>>) => swap.out # <<>>

\* C34: while both recorders are in a call of recordBatch for the same
\* final path, whatever is at that path is the complete output of one of
\* the two calls, and neither call fails in its write of the batch file.
C34_SameRangeWriters ==
  (/\ call[1].op = "record"
   /\ call[2].op = "record"
   /\ call[1].path = call[2].path)
  => /\ call[1].path \in DOMAIN files =>
          /\ CompleteAt(files, call[1].path)
          /\ \E p \in Procs : files[call[1].path].rows = call[p].slim
     /\ \A p \in Procs : pc[p] # "crashed" /\ outcome[p] # Throw("ENOENT")

\* the place in the manifest of the file a replayed batch was read from
FileIndexOf(batch) ==
  CHOOSE i \in 1..Len(manifest.files) :
    /\ manifest.files[i].path \in DOMAIN files
    /\ batch[1] \in Range(files[manifest.files[i].path].rows)

\* C35: at most one call of replayBatch is unsettled at any moment; the
\* batches are replayed in the order of their files in the manifest, which
\* is ascending by minBlock; no batch is replayed before the runner has
\* been loaded and found valid; and once runTarget has thrown, from a
\* rejected replayBatch or otherwise, nothing more is replayed or read.
C35_ReplayOrder ==
  /\ [](/\ Cardinality(fnResult.open) <= 1
        /\ \A j, k \in 1..Len(fnResult.calls) :
             j < k =>
               /\ FileIndexOf(fnResult.calls[j]) < FileIndexOf(fnResult.calls[k])
               /\ manifest.files[FileIndexOf(fnResult.calls[j])].minBlock
                    <= manifest.files[FileIndexOf(fnResult.calls[k])].minBlock
        /\ fnResult.calls # <<>> => fnResult.runner = "loaded")
  /\ [][/\ Len(fnResult'.calls) > Len(fnResult.calls) => fnResult.open = {}
        /\ fnResult.pc = "threw" => fnResult' = fnResult]_vars

\* the batch of the second file is being replayed, the first has settled
C35_Witness ==
  /\ fnResult.pc = "inCall"
  /\ fnResult.runner = "loaded"
  /\ Len(fnResult.calls) = 2
  /\ fnResult.open = {2}

\* a step in which process p moves on in its call
Moves(p) ==
  <<pc[p], call[p], pending[p], outcome[p]>>' # <<pc[p], call[p], pending[p], outcome[p]>>
\* manifest.json, manifest.json.tmp and the batch files, final and temporary
DiskFrame == UNCHANGED <<manifest, manifestTmp, files, tmpFiles>>

C7_ManifestMonotone ==
  /\ [](pc[1] = "idle" =>
          /\ Len(manifest.files) = Len(hist[1].pushed)
          /\ SortedByMin(manifest.files)
          /\ \A e \in Range(hist[1].pushed) :
               Count(e, manifest.files) = Count(e, hist[1].pushed))
  /\ [][\A e \in Range(manifest.files) :
          Count(e, manifest'.files) >= Count(e, manifest.files)]_vars

\* two calls have returned, the second with the lower minBlock
C7_Witness ==
  /\ pc[1] = "idle"
  /\ Len(hist[1].pushed) = 2
  /\ hist[1].pushed[1].minBlock > hist[1].pushed[2].minBlock
  /\ Len(manifest.files) = 2

\* C8: at the moment a recordBatch call in record mode returns, the batch
\* file is in place under <day>/<first height>-<last height> and the
\* manifest holds the entry of that path with those heights.
C8_FileAndEntryOnReturn ==
  [][\A p \in Procs :
       (/\ pc[p] = "release"
        /\ pc'[p] = "idle"
        /\ call[p].op = "record"
        /\ outcome'[p].kind = "return")
       => LET c == call[p]
              first == c.slim[1].height
              last == c.slim[Len(c.slim)].height
          IN /\ c.path = BatchPath(c.path[1], first, last)
             /\ c.path[1] <= today
             /\ c.path \in DOMAIN files'
             /\ \E i \in 1..Len(manifest'.files) :
                  manifest'.files[i] =
                    [path |-> c.path, minBlock |-> first, maxBlock |-> last]]_vars

\* C9: a call of recordBatch in mode replay or off, or with no blocks, ends
\* at once without error and changes neither the batch files, the temporary
\* files, the lock marker nor the manifest.
C9_RecordSkipIsNoOp ==
  [][\A p \in Procs :
       (/\ hist'[p].calls = hist[p].calls + 1
        /\ call'[p].op # "list"
        /\ mode[p] \in {"replay", "off"} \/ call'[p].slim = <<>>)
       => /\ pc'[p] = "idle"
          /\ outcome'[p].kind = "return"
          /\ UNCHANGED <<manifest, manifestTmp, lock, files, tmpFiles>>]_vars

\* a recorder in replay mode and one in record mode given no blocks have
\* both had their call skipped
C9_Witness ==
  \E p, q \in Procs :
    /\ mode[p] = "replay" /\ call[p].op = "skip" /\ outcome[p].kind = "return"
    /\ mode[q] = "record" /\ call[q].op = "skip" /\ outcome[q].kind = "return"

\* C10: a call that found manifest.json missing or corrupt returns the empty
\* list when it has no mutator, and the mutator's result on the empty
\* manifest when it has one.
C10_TolerantRead ==
  \A p \in Procs :
    (pc[p] = "idle" /\ hist[p].readKind \in {"missing", "unparseable", "nofiles"})
    => /\ call[p].op = "list" => outcome[p] = Return(<<>>)
       /\ call[p].op = "record" =>
            outcome[p] = Return(PushEntry(<<>>, EntryOf(call[p])))

====
